---- MODULE Spec2Model ----
(***************************************************************************)
(* KICKR BIKE SHIFT button-to-key bridge                                   *)
(* (Archive/wahoo_bike_shift_to_button_gui_006.py).                        *)
(*                                                                         *)
(* The model has three layers:                                             *)
(*   - the pure functions (parse_short_frame, _to_pydi_key) as operators,  *)
(*   - the module globals _last_seq and _HELD_BY_BUTTON with the functions *)
(*     that mutate them (already_handled, hold_if_needed, ...),            *)
(*   - the worker coroutine BikeKeyGUI._ble_main, one action per segment   *)
(*     between two awaits, the notification handler, the host (GUI)        *)
(*     handlers, and the transport as a nondeterministic environment.      *)
(*                                                                         *)
(* Python's None is modelled by the empty string where the code only tests *)
(* truthiness (key names), and by NoSeq for dict.get on _last_seq.         *)
(***************************************************************************)
EXTENDS Integers, Sequences, FiniteSets, TLC

VARIABLES
    \* ---- host (GUI thread) ----
    stop_event,          \* self.stop_event (threading.Event)
    msgq,                \* self.msgq (queue.Queue), oldest first
    uiStatus,            \* <<text, color>> shown by lbl_status / dot
    btn_connect,         \* TRUE iff the Connect button is enabled
    btn_disconnect,      \* TRUE iff the Disconnect button is enabled
    debug_var,           \* self.debug_var (tk.BooleanVar)
    hostPc,              \* where the GUI thread is: "run" (mainloop), in a
                         \* join of _graceful_shutdown, "closed", "exited"
    \* ---- worker (_ble_worker / _ble_main) ----
    pc,                  \* the await the coroutine is suspended at
    dev,                 \* local dev: "" (None) or the device found
    client,              \* local client: TRUE iff a BleakClient is bound
    notify_on,           \* self._notify_on
    disconnected_event,  \* the asyncio.Event currently bound to the name
    exit,                \* how the try body was left, while the finally runs
    ending,              \* how the worker ended ("" while it has not)
    \* ---- transport (environment) ----
    linkUp,              \* client.is_connected
    subscribed,          \* the peripheral notifies notification_handler
    cbPending,           \* a disconnected_callback is scheduled, not yet run
    \* ---- module globals ----
    HELD_BY_BUTTON,      \* _HELD_BY_BUTTON, in insertion order
    last_seq,            \* _last_seq
    \* ---- configuration (fixed after Init) ----
    BUTTON_TO_KEY,
    BUTTON_BEHAVIOR,
    \* ---- peripheral (the simulator's WahooSimBLE, environment) ----
    seq_by_prefix,       \* self.seq_by_prefix, a defaultdict(int)
    btn_down,            \* the buttons of the peripheral that are down
    nlost,               \* presses sent since the last delivered press that
                         \* did not reach the bridge
    \* ---- keyboard (environment) ----
    pressed,             \* the physical keys currently down
    \* ---- observation of the run ----
    out,                 \* calls and queue puts of the last step, in order
    td,                  \* teardown calls since the try body was left
    bal,                 \* per button: keyDown calls minus keyUp calls
    lastAct,             \* name of the last step
    nrx,                 \* notifications delivered so far
    rx,                  \* the payload, when the last step was a notification
    evt,                 \* parse_short_frame's result on rx
    ndup,                \* notifications already_handled has suppressed
    ntap                 \* pydirectinput.press calls so far

hostRest   == <<stop_event, uiStatus, btn_connect, btn_disconnect, debug_var,
                hostPc>>
hostVars   == <<hostRest, msgq>>
workerVars == <<pc, dev, client, notify_on, disconnected_event, exit, ending>>
linkVars   == <<linkUp, subscribed, cbPending>>
dictVars   == <<HELD_BY_BUTTON, last_seq>>
cfgVars    == <<BUTTON_TO_KEY, BUTTON_BEHAVIOR>>
simVars    == <<seq_by_prefix, btn_down, nlost>>
obsVars    == <<pressed, out, td, bal, lastAct, nrx, rx, evt, ndup, ntap>>
vars == <<hostVars, workerVars, linkVars, dictVars, cfgVars, simVars, obsVars>>

----------------------------------------------------------------------------
(* Bounds *)

\* A step of the worker puts to the queue only while at most this many
\* messages wait to be drained (queue.Queue() itself is unbounded).
MaxBacklog == 0

\* The transport delivers at most this many notifications in a run.
MaxFrames == 3

\* The queue taken on its own holds at most this many undrained messages.
MaxPending == 3

\* At most this many presses in a row are sent while the bridge does not
\* receive (one more than the 7-bit sequence space).
MaxLost == 129

\* send_press and send_release taken on their own are applied at most this
\* many times in a run.
MaxSent == 2

----------------------------------------------------------------------------
(* Configuration *)

PREFIX_TO_BUTTON ==
    ("0001" :> "Right Up")        @@ ("8000" :> "Right Down")  @@
    ("0008" :> "Right Steer")     @@ ("0004" :> "Right Shift Up") @@
    ("0002" :> "Right Shift Down") @@ ("4000" :> "Right Brake") @@
    ("0200" :> "Left Up")         @@ ("0400" :> "Left Down")   @@
    ("2000" :> "Left Steer")      @@ ("1000" :> "Left Shift Up") @@
    ("0800" :> "Left Shift Down") @@ ("0100" :> "Left Brake")

Buttons == { PREFIX_TO_BUTTON[p] : p \in DOMAIN PREFIX_TO_BUTTON }

\* BUTTON_TO_KEY as written in the source.
RefButtonToKey ==
    ("Right Up" :> "7")            @@ ("Right Down" :> "3") @@
    ("Right Steer" :> "ArrowRight") @@ ("Right Shift Up" :> "i") @@
    ("Right Shift Down" :> "k")    @@ ("Right Brake" :> "Space") @@
    ("Left Up" :> "3")             @@ ("Left Down" :> "4") @@
    ("Left Steer" :> "ArrowLeft")  @@ ("Left Shift Up" :> "i") @@
    ("Left Shift Down" :> "k")     @@ ("Left Brake" :> "Space")

\* BUTTON_BEHAVIOR as written in the source.
RefButtonBehavior == ("Right Steer" :> "hold") @@ ("Left Steer" :> "hold")

\* "Uncomment to make brakes hold too".
BrakeHoldBehavior ==
    RefButtonBehavior @@ ("Right Brake" :> "hold") @@ ("Left Brake" :> "hold")

\* The descriptor tables the model runs under.
Configs ==
    { [keys |-> RefButtonToKey, behavior |-> RefButtonBehavior],
      [keys |-> RefButtonToKey, behavior |-> BrakeHoldBehavior] }

KEY_NAME_MAP ==
    [ArrowUp |-> "up", ArrowDown |-> "down", ArrowLeft |-> "left",
     ArrowRight |-> "right", Space |-> "space", Enter |-> "enter",
     Tab |-> "tab", Esc |-> "esc", Escape |-> "esc",
     Backspace |-> "backspace", Delete |-> "delete", Home |-> "home",
     End |-> "end", PageUp |-> "pageup", PageDown |-> "pagedown"]

\* dict.get(key) with default None ("").
DictGet(d, k) == IF k \in DOMAIN d THEN d[k] ELSE ""

\* BUTTON_BEHAVIOR.get(name, "tap")
BehaviorOf(name) ==
    IF name \in DOMAIN BUTTON_BEHAVIOR THEN BUTTON_BEHAVIOR[name] ELSE "tap"

to_pydi_key(key_name) ==
    IF key_name = "" THEN ""
    ELSE IF DictGet(KEY_NAME_MAP, key_name) # ""
         THEN KEY_NAME_MAP[key_name]
         ELSE key_name

----------------------------------------------------------------------------
(* Events of a step: [t, a, b].                                            *)
(*   t = "keyDown" | "keyUp" | "press": a pydirectinput call on key a,     *)
(*       issued on behalf of button b;                                     *)
(*   t = "call": function a called with argument b;                        *)
(*   t = "put":  self.msgq.put((a, b)), b a tuple of strings.              *)

Ev(t, a, b) == [t |-> t, a |-> a, b |-> b]
Call(f, arg) == <<Ev("call", f, arg)>>
Put(kind, payload) == <<Ev("put", kind, payload)>>
Log(text) == Put("log", <<text>>)
Status(text, color) == Put("status", <<text, color>>)
EnableConnect == Put("enable_connect", <<"True">>)

IsKeyEv(e) == e.t \in {"keyDown", "keyUp", "press"}
IsPut(e) == e.t = "put"

send_key_tap(key_name, btn) ==
    LET k == to_pydi_key(key_name)
    IN  IF k = "" THEN <<>> ELSE <<Ev("press", k, btn)>>

send_key_down(key_name, btn) ==
    LET k == to_pydi_key(key_name)
    IN  IF k = "" THEN <<>> ELSE <<Ev("keyDown", k, btn)>>

send_key_up(key_name, btn) ==
    LET k == to_pydi_key(key_name)
    IN  IF k = "" THEN <<>> ELSE <<Ev("keyUp", k, btn)>>

----------------------------------------------------------------------------
(* _HELD_BY_BUTTON: a dict, here the sequence of its items in insertion     *)
(* order. Each function returns the new dict and the events it issued.     *)

HeldHas(h, b) == \E i \in 1..Len(h) : h[i].btn = b
HeldKey(h, b) ==
    IF HeldHas(h, b) THEN h[CHOOSE i \in 1..Len(h) : h[i].btn = b].key ELSE ""
HeldPop(h, b) == SelectSeq(h, LAMBDA e : e.btn # b)

\* Mutant: the key goes down without looking the button up first.
hold_if_needed_NoCheck(h, button_name, key_name) ==
    [held |-> Append(h, [btn |-> button_name, key |-> key_name]),
     ev   |-> Call("hold_if_needed", button_name)
              \o send_key_down(key_name, button_name)]

hold_if_needed(h, button_name, key_name) ==
    IF ~HeldHas(h, button_name)
    THEN [held |-> Append(h, [btn |-> button_name, key |-> key_name]),
          ev   |-> Call("hold_if_needed", button_name)
                   \o send_key_down(key_name, button_name)]
    ELSE [held |-> h, ev |-> Call("hold_if_needed", button_name)]

release_if_held(h, button_name) ==
    LET key_name == HeldKey(h, button_name)
    IN  [held |-> HeldPop(h, button_name),
         ev   |-> Call("release_if_held", button_name)
                  \o (IF key_name # "" THEN send_key_up(key_name, button_name)
                      ELSE <<>>)]

RECURSIVE ReleaseEach(_)
ReleaseEach(items) ==
    IF items = <<>> THEN <<>>
    ELSE send_key_up(Head(items).key, Head(items).btn)
         \o ReleaseEach(Tail(items))

\* Mutant: the key-ups are sent but the entries are never popped.
release_all_KeepEntries(h) ==
    [held |-> h,
     ev   |-> Call("release_all_held_keys", "") \o ReleaseEach(h)]

release_all_held_keys(h) ==
    [held |-> <<>>,
     ev   |-> Call("release_all_held_keys", "") \o ReleaseEach(h)]

----------------------------------------------------------------------------
(* BLE parser (short frames only)                                          *)

HexDigits ==
    <<"0", "1", "2", "3", "4", "5", "6", "7",
      "8", "9", "A", "B", "C", "D", "E", "F">>

\* f"{b:02X}" for a byte b
Hex02X(b) == HexDigits[(b \div 16) + 1] \o HexDigits[(b % 16) + 1]

NotShortFrame == [ok |-> FALSE]

\* Mutant: payloads of 2 bytes and more are decoded, the last byte taken as
\* the type and sequence byte.
parse_short_frame_LastByte(payload) ==
    IF Len(payload) < 2 THEN NotShortFrame
    ELSE LET p == payload[1]
             q == payload[2]
             r == payload[Len(payload)]
             prefix == Hex02X(p) \o Hex02X(q)
         IN  IF prefix \notin DOMAIN PREFIX_TO_BUTTON THEN NotShortFrame
             ELSE [ok     |-> TRUE,
                   prefix |-> prefix,
                   name   |-> PREFIX_TO_BUTTON[prefix],
                   type   |-> IF (r \div 128) % 2 # 0 THEN "press" ELSE "release",
                   seq    |-> r % 128,
                   rrHex  |-> Hex02X(r)]

\* Mutant: only payloads shorter than 3 bytes are rejected.
parse_short_frame_MinLen(payload) ==
    IF Len(payload) < 3 THEN NotShortFrame
    ELSE LET p == payload[1]
             q == payload[2]
             r == payload[3]
             prefix == Hex02X(p) \o Hex02X(q)
         IN  IF prefix \notin DOMAIN PREFIX_TO_BUTTON THEN NotShortFrame
             ELSE [ok     |-> TRUE,
                   prefix |-> prefix,
                   name   |-> PREFIX_TO_BUTTON[prefix],
                   type   |-> IF (r \div 128) % 2 # 0 THEN "press" ELSE "release",
                   seq    |-> r % 128,
                   rrHex  |-> Hex02X(r)]

\* Mutant: the sequence is the whole last byte, bit 7 included.
parse_short_frame_NoMask(payload) ==
    IF Len(payload) # 3 THEN NotShortFrame
    ELSE LET p == payload[1]
             q == payload[2]
             r == payload[3]
             prefix == Hex02X(p) \o Hex02X(q)
         IN  IF prefix \notin DOMAIN PREFIX_TO_BUTTON THEN NotShortFrame
             ELSE [ok     |-> TRUE,
                   prefix |-> prefix,
                   name   |-> PREFIX_TO_BUTTON[prefix],
                   type   |-> IF (r \div 128) % 2 # 0 THEN "press" ELSE "release",
                   seq    |-> r,
                   rrHex  |-> Hex02X(r)]

parse_short_frame(payload) ==
    IF Len(payload) # 3 THEN NotShortFrame
    ELSE LET p == payload[1]
             q == payload[2]
             r == payload[3]
             prefix == Hex02X(p) \o Hex02X(q)
         IN  IF prefix \notin DOMAIN PREFIX_TO_BUTTON THEN NotShortFrame
             ELSE [ok     |-> TRUE,
                   prefix |-> prefix,
                   name   |-> PREFIX_TO_BUTTON[prefix],
                   type   |-> IF (r \div 128) % 2 # 0 THEN "press" ELSE "release",
                   seq    |-> r % 128,
                   rrHex  |-> Hex02X(r)]

\* _last_seq.get(key) when the key is absent (None)
NoSeq == -1

LastSeqGet(ls, key) == IF key \in DOMAIN ls THEN ls[key] ELSE NoSeq

\* Mutant: a new sequence is reported as new but never stored.
already_handled_NoStore(ls, prefix, ev_type, seq) ==
    [ls |-> ls, res |-> LastSeqGet(ls, <<prefix, ev_type>>) = seq]

\* Returns the new _last_seq and the function's result.
already_handled(ls, prefix, ev_type, seq) ==
    LET key == <<prefix, ev_type>>
    IN  IF LastSeqGet(ls, key) = seq
        THEN [ls |-> ls, res |-> TRUE]
        ELSE [ls |-> (key :> seq) @@ ls, res |-> FALSE]

----------------------------------------------------------------------------
(* Effects of a step                                                       *)

RECURSIVE PressedAfter(_, _)
PressedAfter(p, ev) ==
    IF ev = <<>> THEN p
    ELSE LET e == Head(ev)
         IN  PressedAfter(
                 IF e.t = "keyDown" THEN p \cup {e.a}
                 ELSE IF e.t \in {"keyUp", "press"} THEN p \ {e.a}
                 ELSE p,
                 Tail(ev))

RECURSIVE BalAfter(_, _)
BalAfter(b, ev) ==
    IF ev = <<>> THEN b
    ELSE LET e == Head(ev)
         IN  BalAfter(
                 IF e.t = "keyDown" THEN [b EXCEPT ![e.b] = @ + 1]
                 ELSE IF e.t = "keyUp" THEN [b EXCEPT ![e.b] = @ - 1]
                 ELSE b,
                 Tail(ev))

RECURSIVE PutsOf(_)
PutsOf(ev) ==
    IF ev = <<>> THEN <<>>
    ELSE (IF IsPut(Head(ev))
          THEN <<[kind |-> Head(ev).a, payload |-> Head(ev).b]>>
          ELSE <<>>) \o PutsOf(Tail(ev))

\* The number of events of ev that satisfy Test.
Count(ev, Test(_)) == Len(SelectSeq(ev, Test))

\* The step issues the events ev, in order.
EmitCore(name, ev) ==
    \* once on_close has begun the queue is never read again: what is put
    \* from then on is not recorded
    /\ PutsOf(ev) = <<>> \/ Len(msgq) <= MaxBacklog \/ hostPc # "run"
    /\ msgq' = IF hostPc # "run" THEN msgq ELSE msgq \o PutsOf(ev)
    /\ pressed' = PressedAfter(pressed, ev)
    /\ bal' = BalAfter(bal, ev)
    /\ ntap' = ntap + Count(ev, LAMBDA e : e.t = "press")
    /\ ndup' = ndup + Count(ev, LAMBDA e : e = Ev("call", "already_handled", "True"))
    /\ out' = ev
    /\ lastAct' = name

\* A step other than a notification.
Emit(name, ev) ==
    /\ EmitCore(name, ev)
    /\ rx' = <<>>
    /\ evt' = NotShortFrame
    /\ UNCHANGED nrx

----------------------------------------------------------------------------
(* notification_handler                                                    *)

RECURSIVE HexOf(_)
\* payload.hex().upper()
HexOf(payload) ==
    IF payload = <<>> THEN ""
    ELSE Hex02X(Head(payload)) \o HexOf(Tail(payload))

\* Mutant: a release is handed to release_if_held whatever the behavior, and
\* a press of a Tap button also records a hold.
dispatch_IgnoreBehavior(h, name, ev_type) ==
    LET key_name == DictGet(BUTTON_TO_KEY, name)
    IN  IF ev_type = "press"
        THEN IF key_name = "" THEN [held |-> h, ev |-> <<>>]
             ELSE hold_if_needed(h, name, key_name)
        ELSE release_if_held(h, name)

\* Mutant: the release of a Tap button taps its key as well.
dispatch_TapOnRelease(h, name, ev_type) ==
    LET key_name == DictGet(BUTTON_TO_KEY, name)
        behavior == BehaviorOf(name)
    IN  IF key_name = "" THEN [held |-> h, ev |-> <<>>]
        ELSE IF behavior = "tap"
        THEN [held |-> h, ev |-> send_key_tap(key_name, name)]
        ELSE IF ev_type = "press"
        THEN hold_if_needed(h, name, key_name)
        ELSE release_if_held(h, name)

\* The dispatch part of the handler (lines 391-405): new registry and events.
dispatch(h, name, ev_type) ==
    LET key_name == DictGet(BUTTON_TO_KEY, name)
        behavior == BehaviorOf(name)
    IN  IF ev_type = "press"
        THEN IF key_name = "" THEN [held |-> h, ev |-> <<>>]
             ELSE IF behavior = "tap"
                  THEN [held |-> h, ev |-> send_key_tap(key_name, name)]
                  ELSE hold_if_needed(h, name, key_name)
        ELSE IF behavior = "hold"
             THEN release_if_held(h, name)
             ELSE [held |-> h, ev |-> <<>>]

\* Mutant: the result of already_handled is not looked at.
notification_handler_NoDedup(ls, h, debug, payload) ==
    LET e == parse_short_frame(payload)
    IN  IF ~e.ok
        THEN [ls |-> ls, held |-> h,
              ev |-> Call("parse_short_frame", "None")
                     \o (IF debug
                         THEN Log("[BLE] Other frame: " \o HexOf(payload))
                         ELSE <<>>)]
        ELSE LET ah == already_handled(ls, e.prefix, e.type, e.seq)
                 d == dispatch(h, e.name, e.type)
             IN  [ls |-> ah.ls, held |-> d.held,
                  ev |-> Call("parse_short_frame", e.name)
                         \o Call("already_handled",
                                 IF ah.res THEN "True" ELSE "False")
                         \o Log("[BLE] " \o e.name \o " " \o e.type
                                \o " seq=" \o ToString(e.seq)
                                \o " (" \o e.prefix \o e.rrHex \o ")")
                         \o d.ev]

\* Mutant: a payload that is no short frame is logged whatever the Debug
\* checkbox says.
notification_handler_AlwaysLog(ls, h, debug, payload) ==
    LET e == parse_short_frame(payload)
    IN  IF ~e.ok
        THEN [ls |-> ls, held |-> h,
              ev |-> Call("parse_short_frame", "None")
                     \o Log("[BLE] Other frame: " \o HexOf(payload))]
        ELSE LET ah == already_handled(ls, e.prefix, e.type, e.seq)
             IN  IF ah.res
                 THEN [ls |-> ah.ls, held |-> h,
                       ev |-> Call("parse_short_frame", e.name)
                              \o Call("already_handled", "True")]
                 ELSE LET d == dispatch(h, e.name, e.type)
                      IN  [ls |-> ah.ls, held |-> d.held,
                           ev |-> Call("parse_short_frame", e.name)
                                  \o Call("already_handled", "False")
                                  \o Log("[BLE] " \o e.name \o " " \o e.type
                                         \o " seq=" \o ToString(e.seq)
                                         \o " (" \o e.prefix \o e.rrHex \o ")")
                                  \o d.ev]

\* The whole handler on one payload: new _last_seq, new registry, events.
notification_handler(ls, h, debug, payload) ==
    LET e == parse_short_frame(payload)
    IN  IF ~e.ok
        THEN [ls |-> ls, held |-> h,
              ev |-> Call("parse_short_frame", "None")
                     \o (IF debug
                         THEN Log("[BLE] Other frame: " \o HexOf(payload))
                         ELSE <<>>)]
        ELSE LET ah == already_handled(ls, e.prefix, e.type, e.seq)
             IN  IF ah.res
                 THEN [ls |-> ah.ls, held |-> h,
                       ev |-> Call("parse_short_frame", e.name)
                              \o Call("already_handled", "True")]
                 ELSE LET d == dispatch(h, e.name, e.type)
                      IN  [ls |-> ah.ls, held |-> d.held,
                           ev |-> Call("parse_short_frame", e.name)
                                  \o Call("already_handled", "False")
                                  \o Log("[BLE] " \o e.name \o " " \o e.type
                                         \o " seq=" \o ToString(e.seq)
                                         \o " (" \o e.prefix \o e.rrHex \o ")")
                                  \o d.ev]

\* The payloads the transport delivers in a run under the source's table:
\* a Tap button (Right Up), a Hold button (Right Steer) with two sequence
\* numbers, an unknown prefix and a payload that is not 3 bytes long.
RefPayloads ==
    { <<0, 1, 129>>, <<0, 1, 1>>,            \* 0001 81 / 0001 01
      <<0, 8, 129>>, <<0, 8, 1>>,            \* 0008 81 / 0008 01
      <<0, 8, 130>>,                         \* 0008 82
      <<0, 0, 129>>,                         \* 0000 81: unknown prefix
      <<0, 1, 129, 0>> }                     \* 4 bytes

\* The payloads delivered in a run under the brake-hold table: the two Hold
\* buttons that share the output key Space.
BrakePayloads ==
    { <<64, 0, 129>>, <<64, 0, 1>>,          \* 4000 81 / 4000 01
      <<1, 0, 129>>, <<1, 0, 1>> }           \* 0100 81 / 0100 01

Payloads ==
    IF BUTTON_BEHAVIOR = RefButtonBehavior THEN RefPayloads ELSE BrakePayloads

----------------------------------------------------------------------------
(* BikeKeyGUI._ble_main: one action per segment between two awaits.        *)
(* pc names the await the coroutine is suspended at:                       *)
(*   "idle"        no worker thread                                        *)
(*   "top"         about to evaluate `while not self.stop_event.is_set()`  *)
(*   "scan"        await find_device_by_prefix(...)             line 357   *)
(*   "connect"     await client.connect()                       line 409   *)
(*   "sleep419"    await asyncio.sleep(RECONNECT_DELAY_S)       line 419   *)
(*   "subscribe"   await client.start_notify(...)               line 423   *)
(*   "listen"      await asyncio.sleep(0.1)                     line 430   *)
(*   "stop_notify" await client.stop_notify(...)                line 438   *)
(*   "disconnect"  await client.disconnect()                    line 444   *)
(*   "backoff"     await asyncio.sleep(RECONNECT_DELAY_S)       line 463   *)
(*   "done"        _ble_worker has returned                                *)

Alive == pc \notin {"idle", "done"}

\* _ble_worker's except clause (lines 337-340)
WorkerError ==
    Log("[BLE] Error") \o Status("Error", "red") \o EnableConnect

\* Mutant: the Reconnecting status is put before the held keys are released.
FinallyTail_StatusFirst(name, x, pre, tdNow) ==
    LET r == release_all_held_keys(HELD_BY_BUTTON)
    IN  /\ client' = FALSE
        /\ notify_on' = FALSE
        /\ HELD_BY_BUTTON' = r.held
        /\ td' = Append(tdNow, "release_all_held_keys")
        /\ exit' = ""
        /\ IF x = "normal"
           THEN IF stop_event
                THEN /\ Emit(name, pre \o Status("Disconnected", "gray")
                                   \o EnableConnect \o r.ev)
                     /\ pc' = "done"
                     /\ ending' = "stopped"
                ELSE /\ Emit(name, pre \o Status("Reconnecting...", "orange")
                                   \o Log("[BLE] Will retry in 1.5s...")
                                   \o r.ev)
                     /\ pc' = "backoff"
                     /\ ending' = ending
           ELSE IF x = "break"
           THEN /\ Emit(name, pre \o r.ev)
                /\ pc' = "done"
                /\ ending' = "break"
           ELSE IF x = "continue"
           THEN /\ Emit(name, pre \o r.ev)
                /\ pc' = "top"
                /\ ending' = ending
           ELSE /\ Emit(name, pre \o WorkerError \o r.ev)
                /\ pc' = "done"
                /\ ending' = "error"

\* The inner finally and what follows the try statement (lines 448-463),
\* after the events pre of the same segment; x tells how the try body was
\* left, tdNow the teardown calls made so far.
FinallyTail(name, x, pre, tdNow) ==
    LET r == release_all_held_keys(HELD_BY_BUTTON)
    IN  /\ client' = FALSE
        /\ notify_on' = FALSE
        /\ HELD_BY_BUTTON' = r.held
        /\ td' = Append(tdNow, "release_all_held_keys")
        /\ exit' = ""
        /\ IF x = "normal"
           THEN IF stop_event
                THEN /\ Emit(name, pre \o r.ev
                                   \o Status("Disconnected", "gray")
                                   \o EnableConnect)
                     /\ pc' = "done"
                     /\ ending' = "stopped"
                ELSE /\ Emit(name, pre \o r.ev
                                   \o Status("Reconnecting...", "orange")
                                   \o Log("[BLE] Will retry in 1.5s..."))
                     /\ pc' = "backoff"
                     /\ ending' = ending
           ELSE IF x = "break"
           THEN /\ Emit(name, pre \o r.ev)
                /\ pc' = "done"
                /\ ending' = "break"
           ELSE IF x = "continue"
           THEN /\ Emit(name, pre \o r.ev)
                /\ pc' = "top"
                /\ ending' = ending
           ELSE \* "raise": the exception leaves _ble_main
                /\ Emit(name, pre \o r.ev \o WorkerError)
                /\ pc' = "done"
                /\ ending' = "error"

\* Mutant: the held keys are released on entering the finally clause, before
\* stop_notify and disconnect.
EnterFinally_ReleaseFirst(name, x, pre, hasClient, notifyOn, connected) ==
    LET r == release_all_held_keys(HELD_BY_BUTTON)
    IN  IF hasClient /\ (notifyOn \/ connected)
        THEN /\ pc' = IF notifyOn THEN "stop_notify" ELSE "disconnect"
             /\ exit' = x
             /\ td' = <<"release_all_held_keys",
                        IF notifyOn THEN "stop_notify" ELSE "disconnect">>
             /\ client' = hasClient
             /\ notify_on' = notifyOn
             /\ HELD_BY_BUTTON' = r.held
             /\ Emit(name, pre \o r.ev
                           \o Call(IF notifyOn THEN "stop_notify"
                                   ELSE "disconnect", ""))
             /\ UNCHANGED ending
        ELSE FinallyTail(name, x, pre, <<>>)

\* Entering the finally clause (line 432) with the try body left by x.
EnterFinally(name, x, pre, hasClient, notifyOn, connected) ==
    IF hasClient /\ notifyOn
    THEN /\ pc' = "stop_notify"
         /\ exit' = x
         /\ td' = <<"stop_notify">>
         /\ client' = hasClient
         /\ notify_on' = notifyOn
         /\ Emit(name, pre \o Call("stop_notify", ""))
         /\ UNCHANGED <<HELD_BY_BUTTON, ending>>
    ELSE IF hasClient /\ connected
    THEN /\ pc' = "disconnect"
         /\ exit' = x
         /\ td' = <<"disconnect">>
         /\ client' = hasClient
         /\ notify_on' = notifyOn
         /\ Emit(name, pre \o Call("disconnect", ""))
         /\ UNCHANGED <<HELD_BY_BUTTON, ending>>
    ELSE FinallyTail(name, x, pre, <<>>)

\* Lines 364-409: a new connection attempt on dev.
StartAttempt(name, pre) ==
    /\ client' = TRUE
    /\ notify_on' = FALSE
    /\ disconnected_event' = FALSE
    /\ td' = <<>>
    /\ exit' = ""
    /\ pc' = "connect"
    /\ Emit(name, pre \o Log("[BLE] Found device - connecting...")
                  \o Call("connect", ""))

\* Mutant: every iteration scans again, the device of the last session is
\* forgotten.
LoopTop_AlwaysScan ==
    /\ pc = "top"
    /\ IF stop_event
       THEN /\ pc' = "done"
            /\ ending' = "loop_exit"
            /\ Emit("LoopTop", <<>>)
            /\ UNCHANGED <<dev, client, notify_on, disconnected_event, exit,
                           td, uiStatus>>
       ELSE /\ uiStatus' = <<"Scanning...", "orange">>
            /\ pc' = "scan"
            /\ dev' = ""
            /\ Emit("LoopTop", Log("[BLE] Scanning...") \o Call("discover", ""))
            /\ UNCHANGED <<client, notify_on, disconnected_event, exit,
                           td, ending>>
    /\ UNCHANGED <<stop_event, btn_connect, btn_disconnect, debug_var, hostPc>>
    /\ UNCHANGED <<linkVars, dictVars, cfgVars, simVars>>

\* Line 352, and lines 354-357 or 364-409.
LoopTop ==
    /\ pc = "top"
    /\ IF stop_event
       THEN /\ pc' = "done"
            /\ ending' = "loop_exit"
            /\ Emit("LoopTop", <<>>)
            /\ UNCHANGED <<dev, client, notify_on, disconnected_event, exit,
                           td, uiStatus>>
       ELSE IF dev = ""
       THEN /\ uiStatus' = <<"Scanning...", "orange">>
            /\ pc' = "scan"
            /\ Emit("LoopTop", Log("[BLE] Scanning...") \o Call("discover", ""))
            /\ UNCHANGED <<dev, client, notify_on, disconnected_event, exit,
                           td, ending>>
       ELSE /\ StartAttempt("LoopTop", <<>>)
            /\ UNCHANGED <<dev, ending, uiStatus>>
    /\ UNCHANGED <<stop_event, btn_connect, btn_disconnect, debug_var, hostPc>>
    /\ UNCHANGED <<linkVars, dictVars, cfgVars, simVars>>

\* Mutant: a scan that finds nothing is followed by another iteration.
ScanDone_RetryOnNone ==
    /\ pc = "scan"
    /\ \E o \in {"found", "none", "raise"} :
         IF o = "found"
         THEN /\ dev' = "dev"
              /\ StartAttempt("ScanDone", <<>>)
              /\ UNCHANGED ending
         ELSE /\ pc' = IF o = "none" THEN "top" ELSE "done"
              /\ ending' = IF o = "none" THEN ending ELSE "error"
              /\ Emit("ScanDone",
                      IF o = "none"
                      THEN Log("[BLE] Device not found.")
                           \o Status("Not found", "red")
                      ELSE WorkerError)
              /\ UNCHANGED <<dev, client, notify_on, disconnected_event,
                             exit, td>>
    /\ UNCHANGED <<hostRest, linkVars, dictVars, cfgVars, simVars>>

\* find_device_by_prefix returns a device, returns None, or raises.
ScanDone ==
    /\ pc = "scan"
    /\ \E o \in {"found", "none", "raise"} :
         IF o = "found"
         THEN /\ dev' = "dev"
              /\ StartAttempt("ScanDone", <<>>)
              /\ UNCHANGED ending
         ELSE /\ pc' = "done"
              /\ ending' = IF o = "none" THEN "not_found" ELSE "error"
              /\ Emit("ScanDone",
                      IF o = "none"
                      THEN Log("[BLE] Device not found.")
                           \o Status("Not found", "red") \o EnableConnect
                      ELSE WorkerError)
              /\ UNCHANGED <<dev, client, notify_on, disconnected_event,
                             exit, td>>
    /\ UNCHANGED <<hostRest, linkVars, dictVars, cfgVars, simVars>>

\* client.connect() returns connected, returns unconnected, or raises.
ConnectDone ==
    /\ pc = "connect"
    /\ \E o \in {"connected", "unconnected", "raise"} :
         IF o = "connected"
         THEN /\ linkUp' = TRUE
              /\ pc' = "subscribe"
              /\ Emit("ConnectDone",
                      Log("[BLE] Connected. Subscribing to notifications...")
                      \o Call("start_notify", ""))
              /\ UNCHANGED <<dev, client, notify_on, exit, ending, td,
                             HELD_BY_BUTTON>>
         ELSE IF o = "unconnected"
         THEN /\ linkUp' = FALSE
              /\ dev' = ""
              /\ LET pre == Log("[BLE] Failed to connect.")
                            \o Status("Error", "red")
                 IN  IF stop_event
                     THEN EnterFinally("ConnectDone", "break", pre,
                                       TRUE, FALSE, FALSE)
                     ELSE /\ pc' = "sleep419"
                          /\ Emit("ConnectDone", pre)
                          /\ UNCHANGED <<client, notify_on, exit, ending, td,
                                         HELD_BY_BUTTON>>
         ELSE /\ linkUp' = FALSE
              /\ EnterFinally("ConnectDone", "raise", <<>>, TRUE, FALSE, FALSE)
              /\ UNCHANGED dev
    /\ UNCHANGED <<hostRest, disconnected_event, subscribed,
                   cbPending, last_seq, cfgVars, simVars>>

\* Line 419 returns: `continue` runs the finally, then the loop test.
SleepDone419 ==
    /\ pc = "sleep419"
    /\ EnterFinally("SleepDone419", "continue", <<>>, client, notify_on, linkUp)
    /\ UNCHANGED <<hostRest, dev, disconnected_event, linkVars,
                   last_seq, cfgVars, simVars>>

\* client.start_notify() returns or raises; lines 424-430.
SubscribeDone ==
    /\ pc = "subscribe"
    /\ \E o \in {"ok", "raise"} :
         IF o = "ok"
         THEN /\ linkUp
              /\ subscribed' = TRUE
              /\ LET pre == Status("Connected", "green")
                            \o Log("[BLE] Listening (short-frames only).")
                 IN  IF stop_event \/ disconnected_event
                     THEN EnterFinally("SubscribeDone", "normal", pre,
                                       TRUE, TRUE, linkUp)
                     ELSE /\ notify_on' = TRUE
                          /\ pc' = "listen"
                          /\ Emit("SubscribeDone", pre)
                          /\ UNCHANGED <<client, exit, ending, td,
                                         HELD_BY_BUTTON>>
         ELSE /\ EnterFinally("SubscribeDone", "raise", <<>>,
                              TRUE, FALSE, linkUp)
              /\ UNCHANGED subscribed
    /\ UNCHANGED <<hostRest, dev, disconnected_event, linkUp,
                   cbPending, last_seq, cfgVars, simVars>>

\* Mutant: the listen loop ends on the disconnect callback only.
ListenTick_IgnoresStop ==
    /\ pc = "listen"
    /\ IF disconnected_event
       THEN EnterFinally("ListenTick", "normal", <<>>, TRUE, TRUE, linkUp)
       ELSE /\ Emit("ListenTick", <<>>)
            /\ UNCHANGED <<pc, client, notify_on, exit, ending, td,
                           HELD_BY_BUTTON>>
    /\ UNCHANGED <<hostRest, dev, disconnected_event, linkVars,
                   last_seq, cfgVars, simVars>>

\* Line 430 returns and line 429 is evaluated again.
ListenTick ==
    /\ pc = "listen"
    /\ IF stop_event \/ disconnected_event
       THEN EnterFinally("ListenTick", "normal", <<>>, TRUE, TRUE, linkUp)
       ELSE /\ Emit("ListenTick", <<>>)
            /\ UNCHANGED <<pc, client, notify_on, exit, ending, td,
                           HELD_BY_BUTTON>>
    /\ UNCHANGED <<hostRest, dev, disconnected_event, linkVars,
                   last_seq, cfgVars, simVars>>

\* Mutant: client.disconnect() is never called after stop_notify.
StopNotifyDone_SkipDisconnect ==
    /\ pc = "stop_notify"
    /\ \E o \in {"ok", "raise"} :
         LET pre == IF o = "ok" THEN Log("[BLE] Notifications stopped.")
                    ELSE Log("[BLE] stop_notify error")
         IN  /\ subscribed' = IF o = "ok" THEN FALSE ELSE subscribed
             /\ FinallyTail("StopNotifyDone", exit, pre, td)
    /\ UNCHANGED <<hostRest, dev, disconnected_event, linkUp,
                   cbPending, last_seq, cfgVars, simVars>>

\* client.stop_notify() returns or raises (caught); lines 439-444 or 448-463.
StopNotifyDone ==
    /\ pc = "stop_notify"
    /\ \E o \in {"ok", "raise"} :
         LET pre == IF o = "ok" THEN Log("[BLE] Notifications stopped.")
                    ELSE Log("[BLE] stop_notify error")
         IN  /\ subscribed' = IF o = "ok" THEN FALSE ELSE subscribed
             /\ IF linkUp
                THEN /\ pc' = "disconnect"
                     /\ td' = Append(td, "disconnect")
                     /\ Emit("StopNotifyDone", pre \o Call("disconnect", ""))
                     /\ UNCHANGED <<client, notify_on, exit, ending,
                                    HELD_BY_BUTTON>>
                ELSE FinallyTail("StopNotifyDone", exit, pre, td)
    /\ UNCHANGED <<hostRest, dev, disconnected_event, linkUp,
                   cbPending, last_seq, cfgVars, simVars>>

\* client.disconnect() returns or raises (caught); lines 445-463. Either way
\* the connection handle is gone afterwards; a completed disconnect fires the
\* client's disconnected_callback.
DisconnectDone ==
    /\ pc = "disconnect"
    /\ \E o \in {"ok", "raise"} :
         /\ cbPending' = IF o = "ok" /\ linkUp THEN TRUE ELSE cbPending
         /\ FinallyTail("DisconnectDone", exit,
                        IF o = "ok" THEN Log("[BLE] Disconnected from device.")
                        ELSE Log("[BLE] disconnect error"),
                        td)
    /\ linkUp' = FALSE
    /\ subscribed' = FALSE
    /\ UNCHANGED <<hostRest, dev, disconnected_event, last_seq,
                   cfgVars, simVars>>

\* Line 463 returns.
BackoffDone ==
    /\ pc = "backoff"
    /\ pc' = "top"
    /\ Emit("BackoffDone", <<>>)
    /\ UNCHANGED <<hostRest, dev, client, notify_on,
                   disconnected_event, exit, ending, td>>
    /\ UNCHANGED <<linkVars, dictVars, cfgVars, simVars>>

----------------------------------------------------------------------------
(* Transport (environment)                                                 *)

\* Mutant: a frame that arrives while stop is requested is dropped.
Notify_AbortOnStop ==
    /\ Alive
    /\ subscribed
    /\ linkUp
    /\ nrx < MaxFrames
    /\ \E payload \in Payloads :
         LET h == notification_handler(last_seq, HELD_BY_BUTTON, debug_var,
                                       payload)
             r == IF stop_event
                  THEN [ls |-> last_seq, held |-> HELD_BY_BUTTON, ev |-> <<>>]
                  ELSE h
         IN  /\ last_seq' = r.ls
             /\ HELD_BY_BUTTON' = r.held
             /\ rx' = payload
             /\ evt' = parse_short_frame(payload)
             /\ nrx' = nrx + 1
             /\ EmitCore("Notify", Call("notification_handler", HexOf(payload))
                                   \o r.ev)
    /\ UNCHANGED <<hostRest, workerVars, linkVars, cfgVars, simVars, td>>

\* The transport invokes notification_handler with one payload. The handler
\* has no await: it runs to completion on the worker's event loop.
Notify ==
    /\ Alive
    /\ subscribed
    /\ linkUp
    /\ nrx < MaxFrames
    /\ \E payload \in Payloads :
         LET r == notification_handler(last_seq, HELD_BY_BUTTON, debug_var,
                                       payload)
         IN  /\ last_seq' = r.ls
             /\ HELD_BY_BUTTON' = r.held
             /\ rx' = payload
             /\ evt' = parse_short_frame(payload)
             /\ nrx' = nrx + 1
             /\ EmitCore("Notify", Call("notification_handler", HexOf(payload))
                                   \o r.ev)
    /\ UNCHANGED <<hostRest, workerVars, linkVars, cfgVars, simVars, td>>

\* The link drops: the transport schedules the disconnected_callback.
LinkDrop ==
    /\ linkUp
    /\ linkUp' = FALSE
    /\ subscribed' = FALSE
    /\ cbPending' = TRUE
    /\ Emit("LinkDrop", <<>>)
    /\ UNCHANGED <<hostRest, workerVars, dictVars, cfgVars, simVars, td>>

\* _on_disc (lines 374-375) runs: loop.call_soon_threadsafe sets the Event
\* that the name disconnected_event is bound to when the callback runs.
OnDisc ==
    /\ Alive
    /\ cbPending
    /\ cbPending' = FALSE
    /\ disconnected_event' = TRUE
    /\ Emit("OnDisc", <<>>)
    /\ UNCHANGED <<hostRest, pc, dev, client, notify_on, exit, ending,
                   linkUp, subscribed, dictVars, cfgVars, simVars, td>>

----------------------------------------------------------------------------
(* Host (GUI thread)                                                       *)

\* Mutant: starting the worker forgets the sequences seen so far.
on_connect_clicked_ClearsDedup ==
    /\ btn_connect
    /\ IF Alive
       THEN /\ UNCHANGED <<hostVars, workerVars, cbPending, obsVars, last_seq>>
       ELSE /\ Emit("on_connect_clicked", <<>>)
            /\ stop_event' = FALSE
            /\ uiStatus' = <<"Scanning...", "orange">>
            /\ btn_connect' = FALSE
            /\ btn_disconnect' = TRUE
            /\ pc' = "top"
            /\ dev' = ""
            /\ client' = FALSE
            /\ notify_on' = FALSE
            /\ disconnected_event' = FALSE
            /\ exit' = ""
            /\ ending' = ""
            /\ td' = <<>>
            /\ cbPending' = FALSE
            /\ last_seq' = <<>>
            /\ UNCHANGED <<debug_var, hostPc>>
    /\ UNCHANGED <<linkUp, subscribed, HELD_BY_BUTTON, cfgVars, simVars>>

\* Mutant: the handler does not test whether a worker is alive.
on_connect_clicked_NoAliveCheck ==
    /\ btn_connect
    /\ Emit("on_connect_clicked", <<>>)
    /\ stop_event' = FALSE
    /\ uiStatus' = <<"Scanning...", "orange">>
    /\ btn_connect' = FALSE
    /\ btn_disconnect' = TRUE
    /\ pc' = "top"
    /\ dev' = ""
    /\ client' = FALSE
    /\ notify_on' = FALSE
    /\ disconnected_event' = FALSE
    /\ exit' = ""
    /\ ending' = ""
    /\ td' = <<>>
    /\ cbPending' = FALSE
    /\ UNCHANGED <<debug_var, hostPc>>
    /\ UNCHANGED <<linkUp, subscribed, dictVars, cfgVars, simVars>>

\* on_connect_clicked (lines 297-307); the button invokes it only when enabled.
on_connect_clicked ==
    /\ btn_connect
    /\ IF Alive
       THEN /\ UNCHANGED <<hostVars, workerVars, cbPending, obsVars>>
       ELSE /\ Emit("on_connect_clicked", <<>>)
            /\ stop_event' = FALSE
            /\ uiStatus' = <<"Scanning...", "orange">>
            /\ btn_connect' = FALSE
            /\ btn_disconnect' = TRUE
            /\ pc' = "top"
            /\ dev' = ""
            /\ client' = FALSE
            /\ notify_on' = FALSE
            /\ disconnected_event' = FALSE
            /\ exit' = ""
            /\ ending' = ""
            /\ td' = <<>>
            \* asyncio.run starts a new loop: callbacks scheduled on the old
            \* one are gone
            /\ cbPending' = FALSE
            /\ UNCHANGED <<debug_var, hostPc>>
    /\ UNCHANGED <<linkUp, subscribed, dictVars, cfgVars, simVars>>

\* on_disconnect_clicked (lines 309-311)
on_disconnect_clicked ==
    /\ btn_disconnect
    /\ stop_event' = TRUE
    /\ UNCHANGED <<uiStatus, btn_connect, btn_disconnect, debug_var, hostPc, msgq,
                   workerVars, linkVars, dictVars, cfgVars, simVars, obsVars>>

\* The user toggles the "Debug output" checkbox.
toggle_debug ==
    /\ debug_var' = ~debug_var
    /\ UNCHANGED <<stop_event, uiStatus, btn_connect, btn_disconnect, hostPc, msgq,
                   workerVars, linkVars, dictVars, cfgVars, simVars, obsVars>>

RECURSIVE StatusAfter(_, _)
\* The status shown after the messages q are handled in order.
StatusAfter(s, q) ==
    IF q = <<>> THEN s
    ELSE StatusAfter(IF Head(q).kind = "status" THEN Head(q).payload ELSE s,
                     Tail(q))

\* Mutant: a poll handles one message and leaves the rest for the next poll.
drain_queue_OnePerPoll ==
    /\ msgq # <<>>
    /\ uiStatus' = StatusAfter(uiStatus, <<Head(msgq)>>)
    /\ IF Head(msgq).kind = "enable_connect"
       THEN btn_connect' = TRUE /\ btn_disconnect' = TRUE
       ELSE UNCHANGED <<btn_connect, btn_disconnect>>
    /\ msgq' = Tail(msgq)
    /\ UNCHANGED <<stop_event, debug_var, hostPc, obsVars,
                   workerVars, linkVars, dictVars, cfgVars, simVars>>

\* _drain_queue (lines 467-483) with a non-empty queue.
drain_queue ==
    /\ msgq # <<>>
    /\ uiStatus' = StatusAfter(uiStatus, msgq)
    /\ IF \E i \in 1..Len(msgq) : msgq[i].kind = "enable_connect"
       THEN btn_connect' = TRUE /\ btn_disconnect' = TRUE
       ELSE UNCHANGED <<btn_connect, btn_disconnect>>
    /\ msgq' = <<>>
    /\ UNCHANGED <<stop_event, debug_var, hostPc, obsVars,
                   workerVars, linkVars, dictVars, cfgVars, simVars>>

----------------------------------------------------------------------------

Init ==
    /\ stop_event = FALSE
    /\ msgq = <<>>
    /\ uiStatus = <<"Idle", "gray">>
    /\ btn_connect = TRUE
    /\ btn_disconnect = FALSE
    /\ debug_var = FALSE
    /\ hostPc = "run"
    /\ pc = "idle"
    /\ dev = ""
    /\ client = FALSE
    /\ notify_on = FALSE
    /\ disconnected_event = FALSE
    /\ exit = ""
    /\ ending = ""
    /\ linkUp = FALSE
    /\ subscribed = FALSE
    /\ cbPending = FALSE
    /\ HELD_BY_BUTTON = <<>>
    /\ last_seq = <<>>
    /\ \E c \in Configs :
         /\ BUTTON_TO_KEY = c.keys
         /\ BUTTON_BEHAVIOR = c.behavior
    /\ seq_by_prefix = [p \in DOMAIN PREFIX_TO_BUTTON |-> 0]
    /\ btn_down = {}
    /\ nlost = 0
    /\ pressed = {}
    /\ out = <<>>
    /\ td = <<>>
    /\ bal = [b \in Buttons |-> 0]
    /\ lastAct = "Init"
    /\ nrx = 0
    /\ rx = <<>>
    /\ evt = NotShortFrame
    /\ ndup = 0
    /\ ntap = 0

Next ==
    \/ on_connect_clicked
    \/ on_disconnect_clicked
    \/ toggle_debug
    \/ drain_queue
    \/ LoopTop
    \/ ScanDone
    \/ ConnectDone
    \/ SleepDone419
    \/ SubscribeDone
    \/ ListenTick
    \/ StopNotifyDone
    \/ DisconnectDone
    \/ BackoffDone
    \/ Notify
    \/ LinkDrop
    \/ OnDisc

Spec == Init /\ [][Next]_vars

\* The worker's steps: every await of _ble_main returns in the end (the scan
\* has a timeout, the sleeps are timed, the transport answers) and the
\* coroutine is then resumed by the event loop; the host's poll of the queue
\* is rescheduled every 80 ms (line 483).
Fairness ==
    /\ WF_vars(LoopTop)
    /\ WF_vars(ScanDone)
    /\ WF_vars(ConnectDone)
    /\ WF_vars(SleepDone419)
    /\ WF_vars(SubscribeDone)
    /\ WF_vars(ListenTick)
    /\ WF_vars(StopNotifyDone)
    /\ WF_vars(DisconnectDone)
    /\ WF_vars(BackoffDone)
    /\ WF_vars(drain_queue)

SpecFair == Spec /\ Fairness

----------------------------------------------------------------------------
(* A connection that is lost before client.connect() returns: the client  *)
(* object of the attempt was given _on_disc (line 408), and the transport  *)
(* invokes that callback at a time of its own choosing.                    *)

\* Lines 409-420: client.connect() returns with is_connected False after the
\* transport saw the link of this client go down; its disconnected_callback
\* is still to be invoked.
ConnectLost ==
    /\ pc = "connect"
    /\ linkUp' = FALSE
    /\ dev' = ""
    /\ cbPending' = TRUE
    /\ LET pre == Log("[BLE] Failed to connect.")
                  \o Status("Error", "red")
       IN  IF stop_event
           THEN EnterFinally("ConnectLost", "break", pre, TRUE, FALSE, FALSE)
           ELSE /\ pc' = "sleep419"
                /\ Emit("ConnectLost", pre)
                /\ UNCHANGED <<client, notify_on, exit, ending, td,
                               HELD_BY_BUTTON>>
    /\ UNCHANGED <<hostRest, disconnected_event, subscribed,
                   last_seq, cfgVars, simVars>>

NextLate ==
    \/ Next
    \/ ConnectLost

SpecLate == Init /\ [][NextLate]_vars

----------------------------------------------------------------------------
(* The end of the worker thread in two steps: the last message is on the   *)
(* queue before _ble_main returns, asyncio.run closes the loop and the     *)
(* thread ends, so is_alive() is still true when the host drains it.       *)

\* Lines 358-361: the scan found nothing; the messages are put.
ScanNone ==
    /\ pc = "scan"
    /\ pc' = "exit"
    /\ Emit("ScanNone", Log("[BLE] Device not found.")
                        \o Status("Not found", "red") \o EnableConnect)
    /\ UNCHANGED <<dev, client, notify_on, disconnected_event, exit, ending,
                   td>>
    /\ UNCHANGED <<hostRest, linkVars, dictVars, cfgVars, simVars>>

\* Line 362 and lines 334-340: _ble_main returns and the thread ends.
ThreadExit ==
    /\ pc = "exit"
    /\ pc' = "done"
    /\ ending' = "not_found"
    /\ Emit("ThreadExit", <<>>)
    /\ UNCHANGED <<dev, client, notify_on, disconnected_event, exit, td>>
    /\ UNCHANGED <<hostRest, linkVars, dictVars, cfgVars, simVars>>

NextStart ==
    \/ Next
    \/ ScanNone
    \/ ThreadExit

SpecStart == Init /\ [][NextStart]_vars

----------------------------------------------------------------------------
(* parse_short_frame on its own: the inputs are drawn from DecodeInputs and *)
(* the function is applied to them, one after the other.                   *)

DecodeBytes == {0, 1, 2, 4, 8, 16, 32, 64, 128, 171, 255}
LastBytes == {0, 1, 2, 127, 128, 129, 130, 255}

DecodeInputs ==
    { <<p, q, r>> : p \in DecodeBytes, q \in DecodeBytes, r \in LastBytes }
    \cup { <<>>, <<0, 1>>, <<64, 0>>, <<0, 1, 129, 0>>, <<0, 1, 129, 129>> }

\* evt = parse_short_frame(payload), line 379
Decode ==
    /\ \E payload \in DecodeInputs :
         /\ rx' = payload
         /\ evt' = parse_short_frame(payload)
    /\ UNCHANGED <<hostVars, workerVars, linkVars, dictVars, cfgVars, simVars>>
    /\ UNCHANGED <<pressed, out, td, bal, lastAct, nrx, ndup, ntap>>

SpecDecode == Init /\ [][Decode]_vars

----------------------------------------------------------------------------
(* The peripheral as the simulator implements it (WahooSimBLE), wired to    *)
(* the handler: a frame the peripheral sends is handed to                   *)
(* notification_handler.  The simulator's PREFIX_TO_BUTTON (lines 43-58) is *)
(* the bridge's table.                                                      *)

\* BUTTON_TO_PREFIX (line 61): the table inverted.
BUTTON_TO_PREFIX ==
    [b \in Buttons |->
        CHOOSE p \in DOMAIN PREFIX_TO_BUTTON : PREFIX_TO_BUTTON[p] = b]

\* bytes.fromhex(prefix) for a prefix of the table: the two bytes whose
\* two-digit hex rendering gives the prefix (each is 0 or a power of two).
FromHex(prefix) ==
    LET c == {0, 1, 2, 4, 8, 16, 32, 64, 128}
        pq == CHOOSE x \in c \X c : Hex02X(x[1]) \o Hex02X(x[2]) = prefix
    IN  <<pq[1], pq[2]>>

\* Mutant: the sequence is kept to 6 bits.
send_press_SixBit(sq, button_name) ==
    LET prefix == BUTTON_TO_PREFIX[button_name]
        seq == (sq[prefix] + 1) % 64
        rr == 128 + seq
    IN  [seq |-> [sq EXCEPT ![prefix] = seq],
         payload |-> FromHex(prefix) \o <<rr>>]

\* send_press (simulator lines 194-205): new seq_by_prefix and the payload.
\* 0x80 | seq is 128 + seq for a 7-bit seq.
send_press(sq, button_name) ==
    LET prefix == BUTTON_TO_PREFIX[button_name]
        seq == (sq[prefix] + 1) % 128
        rr == 128 + seq
    IN  [seq |-> [sq EXCEPT ![prefix] = seq],
         payload |-> FromHex(prefix) \o <<rr>>]

\* send_release (simulator lines 207-217)
send_release(sq, button_name) ==
    LET prefix == BUTTON_TO_PREFIX[button_name]
        seq == sq[prefix] % 128
    IN  [seq |-> sq, payload |-> FromHex(prefix) \o <<seq>>]

\* The payload reaches notification_handler; the counters of a run of the
\* worker (bal, nrx, ndup, ntap) are not kept here.
Deliver(name, payload) ==
    LET r == notification_handler(last_seq, HELD_BY_BUTTON, debug_var, payload)
        ev == Call("notification_handler", HexOf(payload)) \o r.ev
    IN  /\ PutsOf(ev) = <<>> \/ Len(msgq) <= MaxBacklog
        /\ msgq' = msgq \o PutsOf(ev)
        /\ last_seq' = r.ls
        /\ HELD_BY_BUTTON' = r.held
        /\ pressed' = PressedAfter(pressed, ev)
        /\ out' = ev
        /\ rx' = payload
        /\ evt' = parse_short_frame(payload)
        /\ lastAct' = name
        /\ UNCHANGED <<hostRest, workerVars, linkVars, cfgVars>>
        /\ UNCHANGED <<td, bal, nrx, ndup, ntap>>

\* The button the runs of the peripheral press: Right Steer, a Hold button.
SimButtons == {"Right Steer"}

\* A button that is up goes down: send_press, and the frame is delivered.
SimPress ==
    \E b \in SimButtons \ btn_down :
        LET s == send_press(seq_by_prefix, b)
        IN  /\ seq_by_prefix' = s.seq
            /\ btn_down' = btn_down \cup {b}
            /\ nlost' = 0
            /\ Deliver("SimPress", s.payload)

\* A button that is down goes up: send_release, and the frame is delivered.
SimRelease ==
    \E b \in btn_down :
        LET s == send_release(seq_by_prefix, b)
        IN  /\ seq_by_prefix' = s.seq
            /\ btn_down' = btn_down \ {b}
            /\ UNCHANGED nlost
            /\ Deliver("SimRelease", s.payload)

\* The transport notifies the value of the characteristic once more: the
\* last frame sent (self.char.value, line 157).
SimRedeliver ==
    /\ rx # <<>>
    /\ Deliver("SimRedeliver", rx)
    /\ UNCHANGED simVars

SpecSim ==
    Init /\ [][SimPress \/ SimRelease \/ SimRedeliver \/ drain_queue]_vars

\* A button is pressed and released while the bridge does not receive (it
\* is not subscribed): send_press and send_release run, nothing is delivered.
SimCycleLost ==
    /\ nlost < MaxLost
    /\ \E b \in SimButtons \ btn_down :
         seq_by_prefix' =
             send_release(send_press(seq_by_prefix, b).seq, b).seq
    /\ nlost' = nlost + 1
    /\ UNCHANGED <<hostVars, workerVars, linkVars, dictVars, cfgVars>>
    /\ UNCHANGED <<btn_down, obsVars>>

SpecSimLossy ==
    Init /\ [][SimPress \/ SimRelease \/ SimCycleLost \/ drain_queue]_vars

----------------------------------------------------------------------------
(* send_press and send_release on their own, decoded by parse_short_frame:  *)
(* every counter starts at one of SeqStarts and the functions are applied   *)
(* to any button.                                                           *)

SeqStarts == {0, 1, 126, 127}

InitSimFrame ==
    /\ stop_event = FALSE
    /\ msgq = <<>>
    /\ uiStatus = <<"Idle", "gray">>
    /\ btn_connect = TRUE
    /\ btn_disconnect = FALSE
    /\ debug_var = FALSE
    /\ hostPc = "run"
    /\ pc = "idle"
    /\ dev = ""
    /\ client = FALSE
    /\ notify_on = FALSE
    /\ disconnected_event = FALSE
    /\ exit = ""
    /\ ending = ""
    /\ linkUp = FALSE
    /\ subscribed = FALSE
    /\ cbPending = FALSE
    /\ HELD_BY_BUTTON = <<>>
    /\ last_seq = <<>>
    /\ \E c \in Configs :
         /\ BUTTON_TO_KEY = c.keys
         /\ BUTTON_BEHAVIOR = c.behavior
    /\ \E v \in SeqStarts :
         seq_by_prefix = [p \in DOMAIN PREFIX_TO_BUTTON |-> v]
    /\ btn_down = {}
    /\ nlost = 0
    /\ pressed = {}
    /\ out = <<>>
    /\ td = <<>>
    /\ bal = [b \in Buttons |-> 0]
    /\ lastAct = "Init"
    /\ nrx = 0
    /\ rx = <<>>
    /\ evt = NotShortFrame
    /\ ndup = 0
    /\ ntap = 0

\* send_press or send_release for a button; the payload is decoded.
SimSend ==
    /\ nrx < MaxSent
    /\ \E b \in Buttons, fn \in {"send_press", "send_release"} :
         LET s == IF fn = "send_press" THEN send_press(seq_by_prefix, b)
                  ELSE send_release(seq_by_prefix, b)
         IN  /\ seq_by_prefix' = s.seq
             /\ rx' = s.payload
             /\ evt' = parse_short_frame(s.payload)
             /\ out' = Call(fn, b)
             /\ lastAct' = fn
    /\ nrx' = nrx + 1
    /\ UNCHANGED <<hostVars, workerVars, linkVars, dictVars, cfgVars>>
    /\ UNCHANGED <<btn_down, nlost, pressed, td, bal, ndup, ntap>>

SpecSimFrame == InitSimFrame /\ [][SimSend]_vars

----------------------------------------------------------------------------
(* Two BikeKeyGUI objects in one process.  _last_seq and _HELD_BY_BUTTON    *)
(* are module globals (lines 156 and 181), so both handlers work on the one *)
(* pair of dicts; the queue and the Debug checkbox are per object.  The     *)
(* variables of the host and of the worker are those of the first object.   *)

\* A frame of its own peripheral reaches the handler of the first object.
Bridge_own ==
    /\ \E payload \in Payloads : Deliver("Bridge_own", payload)
    /\ UNCHANGED simVars

\* A frame reaches the handler of the other object: its messages go to that
\* object's queue, its key calls to the one keyboard.
Bridge_other ==
    /\ \E payload \in Payloads, debug \in BOOLEAN :
         LET r == notification_handler(last_seq, HELD_BY_BUTTON, debug, payload)
             ev == Call("notification_handler", HexOf(payload)) \o r.ev
         IN  /\ last_seq' = r.ls
             /\ HELD_BY_BUTTON' = r.held
             /\ pressed' = PressedAfter(pressed, ev)
             /\ out' = ev
             /\ rx' = payload
             /\ evt' = parse_short_frame(payload)
    /\ lastAct' = "Bridge_other"
    /\ UNCHANGED <<hostVars, workerVars, linkVars, cfgVars, simVars>>
    /\ UNCHANGED <<td, bal, nrx, ndup, ntap>>

SpecTwoBridges == Init /\ [][Bridge_own \/ Bridge_other \/ drain_queue]_vars

----------------------------------------------------------------------------
(* Key injection that can fail: the handler and release_all_held_keys with  *)
(* pydirectinput calls that raise for the keys in `fail` (the fail-safe     *)
(* check of pydirectinput raises before anything is injected).  Each        *)
(* function returns, next to its results, whether it was left by the        *)
(* exception.                                                               *)

\* send_key_tap / send_key_down / send_key_up (lines 134-153): no try.
send_key_exc(kind, key_name, btn, fail) ==
    LET k == to_pydi_key(key_name)
    IN  IF k = "" THEN [ev |-> <<>>, raised |-> FALSE]
        ELSE IF k \in fail THEN [ev |-> <<Ev("raise", k, btn)>>, raised |-> TRUE]
        ELSE [ev |-> <<Ev(kind, k, btn)>>, raised |-> FALSE]

\* hold_if_needed (lines 158-161): the entry is stored after keyDown returned.
hold_if_needed_exc(h, button_name, key_name, fail) ==
    IF ~HeldHas(h, button_name)
    THEN LET c == send_key_exc("keyDown", key_name, button_name, fail)
         IN  [held |-> IF c.raised THEN h
                       ELSE Append(h, [btn |-> button_name, key |-> key_name]),
              ev |-> Call("hold_if_needed", button_name) \o c.ev,
              raised |-> c.raised]
    ELSE [held |-> h, ev |-> Call("hold_if_needed", button_name),
          raised |-> FALSE]

\* release_if_held (lines 163-166): the entry is popped before keyUp is called.
release_if_held_exc(h, button_name, fail) ==
    LET key_name == HeldKey(h, button_name)
        c == IF key_name # ""
             THEN send_key_exc("keyUp", key_name, button_name, fail)
             ELSE [ev |-> <<>>, raised |-> FALSE]
    IN  [held |-> HeldPop(h, button_name),
         ev |-> Call("release_if_held", button_name) \o c.ev,
         raised |-> c.raised]

RECURSIVE ReleaseEach_exc(_, _)
ReleaseEach_exc(items, fail) ==
    IF items = <<>> THEN <<>>
    ELSE send_key_exc("keyUp", Head(items).key, Head(items).btn, fail).ev
         \o ReleaseEach_exc(Tail(items), fail)

RECURSIVE ReleaseUntilRaise(_, _)
\* The loop of release_all_held_keys without its try: it ends at the first
\* keyUp that raises, the entry of that key and the later ones stay.
ReleaseUntilRaise(items, fail) ==
    IF items = <<>> THEN [held |-> <<>>, ev |-> <<>>, raised |-> FALSE]
    ELSE LET c == send_key_exc("keyUp", Head(items).key, Head(items).btn, fail)
             r == ReleaseUntilRaise(Tail(items), fail)
         IN  IF c.raised THEN [held |-> items, ev |-> c.ev, raised |-> TRUE]
             ELSE [held |-> r.held, ev |-> c.ev \o r.ev, raised |-> r.raised]

\* Mutant: release_all_held_keys without the try/except around send_key_up.
release_all_held_keys_NoTry(h, fail) ==
    LET r == ReleaseUntilRaise(h, fail)
    IN  [held |-> r.held,
         ev |-> Call("release_all_held_keys", "") \o r.ev,
         raised |-> r.raised]

\* release_all_held_keys (lines 168-174): try/except around each send_key_up.
release_all_held_keys_exc(h, fail) ==
    [held |-> <<>>,
     ev |-> Call("release_all_held_keys", "") \o ReleaseEach_exc(h, fail),
     raised |-> FALSE]

\* lines 391-405
dispatch_exc(h, name, ev_type, fail) ==
    LET key_name == DictGet(BUTTON_TO_KEY, name)
        behavior == BehaviorOf(name)
        none == [held |-> h, ev |-> <<>>, raised |-> FALSE]
    IN  IF ev_type = "press"
        THEN IF key_name = "" THEN none
             ELSE IF behavior = "tap"
                  THEN LET c == send_key_exc("press", key_name, name, fail)
                       IN  [held |-> h, ev |-> c.ev, raised |-> c.raised]
                  ELSE hold_if_needed_exc(h, name, key_name, fail)
        ELSE IF behavior = "hold"
             THEN release_if_held_exc(h, name, fail)
             ELSE none

\* notification_handler (lines 377-405): no try around the dispatch.
notification_handler_exc(ls, h, debug, payload, fail) ==
    LET e == parse_short_frame(payload)
    IN  IF ~e.ok
        THEN [ls |-> ls, held |-> h, raised |-> FALSE,
              ev |-> Call("parse_short_frame", "None")
                     \o (IF debug
                         THEN Log("[BLE] Other frame: " \o HexOf(payload))
                         ELSE <<>>)]
        ELSE LET ah == already_handled(ls, e.prefix, e.type, e.seq)
             IN  IF ah.res
                 THEN [ls |-> ah.ls, held |-> h, raised |-> FALSE,
                       ev |-> Call("parse_short_frame", e.name)
                              \o Call("already_handled", "True")]
                 ELSE LET d == dispatch_exc(h, e.name, e.type, fail)
                      IN  [ls |-> ah.ls, held |-> d.held, raised |-> d.raised,
                           ev |-> Call("parse_short_frame", e.name)
                                  \o Call("already_handled", "False")
                                  \o Log("[BLE] " \o e.name \o " " \o e.type
                                         \o " seq=" \o ToString(e.seq)
                                         \o " (" \o e.prefix \o e.rrHex \o ")")
                                  \o d.ev]

\* The function was left by an exception.
Except(fn) == Ev("except", fn, "")
ExceptIf(raised, fn) == IF raised THEN <<Except(fn)>> ELSE <<>>

\* The keys whose injection can fail, and the payloads delivered: the press
\* and the release of Right Steer (Hold), the press of Right Brake (Hold
\* under the brake-hold table) and the press of Right Up (Tap).
ExcKeys == {"right", "space", "7"}
ExcPayloads == { <<0, 8, 129>>, <<0, 8, 1>>, <<64, 0, 129>>, <<0, 1, 129>> }

\* A notification, with key calls that may raise.
Notify_exc ==
    /\ nrx < MaxFrames
    /\ \E payload \in ExcPayloads, fail \in SUBSET ExcKeys :
         LET r == notification_handler_exc(last_seq, HELD_BY_BUTTON, debug_var,
                                           payload, fail)
         IN  /\ last_seq' = r.ls
             /\ HELD_BY_BUTTON' = r.held
             /\ rx' = payload
             /\ evt' = parse_short_frame(payload)
             /\ nrx' = nrx + 1
             /\ EmitCore("Notify_exc",
                         Call("notification_handler", HexOf(payload))
                         \o r.ev \o ExceptIf(r.raised, "notification_handler"))
    /\ UNCHANGED <<hostRest, workerVars, linkVars, cfgVars, simVars, td>>

\* release_all_held_keys() as the teardown calls it (line 452), with key
\* calls that may raise.
ReleaseAll_exc ==
    /\ \E fail \in SUBSET ExcKeys :
         LET r == release_all_held_keys_exc(HELD_BY_BUTTON, fail)
         IN  /\ HELD_BY_BUTTON' = r.held
             /\ Emit("ReleaseAll_exc",
                     r.ev \o ExceptIf(r.raised, "release_all_held_keys"))
    /\ UNCHANGED <<hostRest, workerVars, linkVars, last_seq, cfgVars, simVars, td>>

SpecExc == Init /\ [][Notify_exc \/ ReleaseAll_exc \/ drain_queue]_vars

----------------------------------------------------------------------------
(* Window close and interpreter exit: on_close, _atexit_cleanup and         *)
(* _graceful_shutdown on the GUI thread, next to a worker that may still be *)
(* running.  thread.join(timeout=5.0) returns when the worker has ended or  *)
(* when the five seconds are over, whichever comes first; time is not       *)
(* modelled, so it may return at any position of the worker.                *)

\* _graceful_shutdown up to the join: lines 324-328.
graceful_shutdown_begin(from, to) ==
    /\ hostPc = from
    /\ hostPc' = to
    /\ stop_event' = TRUE
    /\ UNCHANGED <<uiStatus, btn_connect, btn_disconnect, debug_var, msgq>>
    /\ UNCHANGED <<workerVars, linkVars, dictVars, cfgVars, simVars, obsVars>>

\* _graceful_shutdown from the return of the join: the finally clause,
\* release_all_held_keys() called on the GUI thread (lines 329-331).
graceful_shutdown_end(from, to) ==
    LET r == release_all_held_keys(HELD_BY_BUTTON)
    IN  /\ hostPc = from
        /\ hostPc' = to
        /\ HELD_BY_BUTTON' = r.held
        /\ pressed' = PressedAfter(pressed, r.ev)
        /\ bal' = BalAfter(bal, r.ev)
        /\ UNCHANGED <<stop_event, uiStatus, btn_connect, btn_disconnect,
                       debug_var, msgq>>
        /\ UNCHANGED <<workerVars, linkVars, last_seq, cfgVars, simVars>>
        /\ UNCHANGED <<out, td, lastAct, nrx, rx, evt, ndup, ntap>>

\* on_close (lines 314-317) up to the join
on_close == graceful_shutdown_begin("run", "join_close")

\* on_close from the join on; root.destroy() ends the mainloop
on_close_release == graceful_shutdown_end("join_close", "closed")

\* _atexit_cleanup (lines 319-321) up to the join
atexit_cleanup == graceful_shutdown_begin("closed", "join_exit")

\* _atexit_cleanup from the join on
atexit_release == graceful_shutdown_end("join_exit", "cleaned")

\* The interpreter exits; the worker is a daemon thread (line 305) and ends
\* with it wherever it is.
interpreter_exit ==
    /\ hostPc = "cleaned"
    /\ hostPc' = "exited"
    /\ UNCHANGED <<stop_event, uiStatus, btn_connect, btn_disconnect,
                   debug_var, msgq>>
    /\ UNCHANGED <<workerVars, linkVars, dictVars, cfgVars, simVars, obsVars>>

\* The steps of the GUI thread inside the mainloop.
HostNext ==
    \/ on_connect_clicked
    \/ on_disconnect_clicked
    \/ toggle_debug
    \/ drain_queue

\* The steps of the worker thread and of the transport.
WorkerNext ==
    \/ LoopTop
    \/ ScanDone
    \/ ConnectDone
    \/ SleepDone419
    \/ SubscribeDone
    \/ ListenTick
    \/ StopNotifyDone
    \/ DisconnectDone
    \/ BackoffDone
    \/ Notify
    \/ LinkDrop
    \/ OnDisc

NextShutdown ==
    \/ hostPc = "run" /\ HostNext
    \/ hostPc # "exited" /\ WorkerNext
    \/ on_close
    \/ on_close_release
    \/ atexit_cleanup
    \/ atexit_release
    \/ interpreter_exit

SpecShutdown == Init /\ [][NextShutdown]_vars

----------------------------------------------------------------------------
(* The queue on its own: a producer that puts the worker's messages in any *)
(* order, and the host's poll.                                             *)

\* Messages the worker puts (lines 355-463).
BusMessages ==
    { [kind |-> "status", payload |-> <<"Connected", "green">>],
      [kind |-> "status", payload |-> <<"Reconnecting...", "orange">>],
      [kind |-> "status", payload |-> <<"Error", "red">>],
      [kind |-> "status", payload |-> <<"Disconnected", "gray">>],
      [kind |-> "log", payload |-> <<"[BLE] Scanning...">>],
      [kind |-> "enable_connect", payload |-> <<"True">>] }

\* self.msgq.put(m)
msgq_put ==
    /\ Len(msgq) < MaxPending
    /\ \E m \in BusMessages : msgq' = Append(msgq, m)
    /\ lastAct' = "msgq_put"
    /\ UNCHANGED <<hostRest, workerVars, linkVars, dictVars, cfgVars, simVars>>
    /\ UNCHANGED <<pressed, out, td, bal, nrx, rx, evt, ndup, ntap>>

SpecBus == Init /\ [][msgq_put \/ drain_queue]_vars

----------------------------------------------------------------------------
(* The dispatch part of the handler on its own: accepted events of every   *)
(* button, in any order, under the tables of Configs and under a table in  *)
(* which a Tap button and a Hold button have no key.                       *)

\* BUTTON_TO_KEY with "Right Up" set to None and "Left Steer" removed.
NoKeyButtonToKey ==
    ("Right Up" :> "")             @@ ("Right Down" :> "3") @@
    ("Right Steer" :> "ArrowRight") @@ ("Right Shift Up" :> "i") @@
    ("Right Shift Down" :> "k")    @@ ("Right Brake" :> "Space") @@
    ("Left Up" :> "3")             @@ ("Left Down" :> "4") @@
    ("Left Shift Up" :> "i") @@
    ("Left Shift Down" :> "k")     @@ ("Left Brake" :> "Space")

DispatchConfigs ==
    Configs \cup { [keys |-> NoKeyButtonToKey, behavior |-> RefButtonBehavior] }

InitDispatch ==
    /\ stop_event = FALSE
    /\ msgq = <<>>
    /\ uiStatus = <<"Idle", "gray">>
    /\ btn_connect = TRUE
    /\ btn_disconnect = FALSE
    /\ debug_var = FALSE
    /\ hostPc = "run"
    /\ pc = "idle"
    /\ dev = ""
    /\ client = FALSE
    /\ notify_on = FALSE
    /\ disconnected_event = FALSE
    /\ exit = ""
    /\ ending = ""
    /\ linkUp = FALSE
    /\ subscribed = FALSE
    /\ cbPending = FALSE
    /\ HELD_BY_BUTTON = <<>>
    /\ last_seq = <<>>
    /\ \E c \in DispatchConfigs :
         /\ BUTTON_TO_KEY = c.keys
         /\ BUTTON_BEHAVIOR = c.behavior
    /\ seq_by_prefix = [p \in DOMAIN PREFIX_TO_BUTTON |-> 0]
    /\ btn_down = {}
    /\ nlost = 0
    /\ pressed = {}
    /\ out = <<>>
    /\ td = <<>>
    /\ bal = [b \in Buttons |-> 0]
    /\ lastAct = "Init"
    /\ nrx = 0
    /\ rx = <<>>
    /\ evt = NotShortFrame
    /\ ndup = 0
    /\ ntap = 0

\* Lines 391-405 on an accepted event of the button with the given prefix.
Dispatch ==
    /\ \E prefix \in DOMAIN PREFIX_TO_BUTTON, ev_type \in {"press", "release"} :
         LET name == PREFIX_TO_BUTTON[prefix]
             d == dispatch(HELD_BY_BUTTON, name, ev_type)
         IN  /\ HELD_BY_BUTTON' = d.held
             /\ out' = d.ev
             /\ pressed' = PressedAfter(pressed, d.ev)
             /\ bal' = BalAfter(bal, d.ev)
             /\ evt' = [ok |-> TRUE, prefix |-> prefix, name |-> name,
                        type |-> ev_type, seq |-> 0, rrHex |-> "00"]
    /\ lastAct' = "Dispatch"
    /\ UNCHANGED <<hostVars, workerVars, linkVars, last_seq, cfgVars, simVars>>
    /\ UNCHANGED <<td, nrx, rx, ndup, ntap>>

SpecDispatch == InitDispatch /\ [][Dispatch]_vars

----------------------------------------------------------------------------
(* The connection state of the design (section 4.5), read off the worker's  *)
(* position: the teardown awaits are Disconnecting, the two backoff sleeps  *)
(* are Reconnecting (the "Reconnecting..." status is put on entering the    *)
(* one at line 463).                                                       *)

ConnState ==
    CASE pc = "idle" -> "Idle"
      [] pc = "top" -> IF dev = "" THEN "Scanning" ELSE "Reconnecting"
      [] pc = "scan" -> "Scanning"
      [] pc \in {"connect", "subscribe"} -> "Connecting"
      [] pc = "listen" -> "Listening"
      [] pc \in {"stop_notify", "disconnect"} -> "Disconnecting"
      [] pc \in {"sleep419", "backoff"} -> "Reconnecting"
      [] pc = "done" ->
           IF ending \in {"stopped", "break", "loop_exit"} THEN "Stopped"
           ELSE "Failed"

----------------------------------------------------------------------------
(* Properties                                                              *)

OutIdx == 1..Len(out)
StatusEv(text, color) == Ev("put", "status", <<text, color>>)
ReconnectingEv == StatusEv("Reconnecting...", "orange")
DisconnectedEv == StatusEv("Disconnected", "gray")
ReleaseAllEv == Ev("call", "release_all_held_keys", "")
NoKeyHeld ==
    /\ HELD_BY_BUTTON = <<>>
    /\ \A b \in Buttons : bal[b] = 0
    /\ pressed = {}

\* C1: once the machine has left Listening and is in Reconnecting, Scanning,
\* Connecting, Stopped or Failed, release_all_held_keys has run: the registry
\* is empty, every keyDown issued for a button has been followed by a keyUp
\* and no key is down.
C1_ReleasedAfterListening ==
    ConnState \in {"Reconnecting", "Scanning", "Connecting", "Stopped", "Failed"}
        => NoKeyHeld

\* The link dropped with a key held; the worker released it and now waits to
\* reconnect.
C1_Witness ==
    /\ pc = "backoff"
    /\ \E i \in OutIdx : out[i].t = "keyUp"

C3_Order ==
    \A j \in OutIdx :
        out[j] = ReconnectingEv
            => /\ \A i \in OutIdx : IsKeyEv(out[i]) => i < j
               /\ NoKeyHeld
               /\ ConnState = "Reconnecting"

\* C3, the next state: leaving the listen loop starts the teardown, and when
\* the teardown ends the worker is Reconnecting if stop_event is not set and
\* Stopped (status Disconnected) if it is.
C3_NextState ==
    /\ (pc = "listen" /\ pc' # "listen") => pc' = "stop_notify"
    /\ (exit = "normal" /\ exit' # "normal")
         => IF stop_event
            THEN /\ ConnState' = "Stopped"
                 /\ \E j \in 1..Len(out') : out'[j] = DisconnectedEv
            ELSE /\ ConnState' = "Reconnecting"
                 /\ \E j \in 1..Len(out') : out'[j] = ReconnectingEv

\* C3: when the disconnect callback ends Listening with a Hold button held,
\* the keyUp is issued before the Reconnecting status is put; the next state
\* is Reconnecting when stop is not requested, and Stopped, through the
\* teardown, when it is.
C3_KeyUpBeforeReconnecting == []C3_Order /\ [][C3_NextState]_vars

\* The callback has set disconnected_event, the teardown has ended, and the
\* step released a key and then put the Reconnecting status.
C3_Witness ==
    /\ disconnected_event
    /\ td # <<>>
    /\ td[1] = "stop_notify"
    /\ \E i, j \in OutIdx :
         i < j /\ out[i].t = "keyUp" /\ out[j] = ReconnectingEv

\* The key events of a step, in order.
KeyEvs(o) == SelectSeq(o, IsKeyEv)
PutEvs(o) == SelectSeq(o, IsPut)
Accepted(o) == \E i \in 1..Len(o) : o[i] = Ev("call", "already_handled", "False")
Suppressed(o) == \E i \in 1..Len(o) : o[i] = Ev("call", "already_handled", "True")
IsRegistryCall(e) ==
    e.t = "call" /\ e.a \in {"hold_if_needed", "release_if_held"}
\* The step is a notification.
NotifyStep == nrx' = nrx + 1
\* What _last_seq holds for the event decoded in this step, before the step.
StoredBefore == LastSeqGet(last_seq, <<evt'.prefix, evt'.type>>)

\* The descriptor table keyed by the two prefix bytes (0x8000 is 128, 0).
PrefixBytes ==
    (<<0, 1>> :> "Right Up")          @@ (<<128, 0>> :> "Right Down") @@
    (<<0, 8>> :> "Right Steer")       @@ (<<0, 4>> :> "Right Shift Up") @@
    (<<0, 2>> :> "Right Shift Down")  @@ (<<64, 0>> :> "Right Brake") @@
    (<<2, 0>> :> "Left Up")           @@ (<<4, 0>> :> "Left Down") @@
    (<<32, 0>> :> "Left Steer")       @@ (<<16, 0>> :> "Left Shift Up") @@
    (<<8, 0>> :> "Left Shift Down")   @@ (<<1, 0>> :> "Left Brake")

\* The payload is not a short frame of a known button.
NotShort(payload) ==
    \/ Len(payload) # 3
    \/ <<payload[1], payload[2]>> \notin DOMAIN PrefixBytes

\* C4 (as claimed): the registry has at most one entry per button, every
\* entry's key is physically down, and every key that is down has an entry.
C4_RegistryMatchesKeys ==
    /\ \A i, j \in 1..Len(HELD_BY_BUTTON) :
         HELD_BY_BUTTON[i].btn = HELD_BY_BUTTON[j].btn => i = j
    /\ \A i \in 1..Len(HELD_BY_BUTTON) :
         to_pydi_key(HELD_BY_BUTTON[i].key) \in pressed
    /\ \A k \in pressed :
         \E i \in 1..Len(HELD_BY_BUTTON) : to_pydi_key(HELD_BY_BUTTON[i].key) = k

\* C5: for every button the keyDown calls issued for it exceed the keyUp
\* calls by 0 or 1, and a step that ran release_all_held_keys leaves the
\* registry empty.
C5_HoldBalance ==
    /\ \A b \in Buttons : bal[b] \in {0, 1}
    /\ (\E i \in OutIdx : out[i] = ReleaseAllEv) => HELD_BY_BUTTON = <<>>

\* A second press of Right Steer (a new sequence) arrived while it was held:
\* hold_if_needed was called and sent no keyDown.
C5_Witness ==
    /\ lastAct = "Notify"
    /\ \E i \in OutIdx : out[i] = Ev("call", "hold_if_needed", "Right Steer")
    /\ KeyEvs(out) = <<>>
    /\ bal["Right Steer"] = 1

\* C6: no entry of the registry belongs to a Tap button, and no step calls
\* hold_if_needed or release_if_held for a Tap button.
C6_TapNeverHeld ==
    /\ \A i \in 1..Len(HELD_BY_BUTTON) :
         BehaviorOf(HELD_BY_BUTTON[i].btn) # "tap"
    /\ \A i \in OutIdx :
         IsRegistryCall(out[i]) => BehaviorOf(out[i].b) # "tap"

\* The release of a Tap button was accepted after its press had been tapped.
C6_Witness ==
    /\ lastAct = "Notify"
    /\ evt.ok
    /\ BehaviorOf(evt.name) = "tap"
    /\ evt.type = "release"
    /\ Accepted(out)
    /\ ntap >= 1

\* C7, one call: the event is suppressed iff the sequence stored for its
\* (prefix, type) equals its sequence, and then _last_seq is unchanged;
\* otherwise it is accepted and only its own entry is set to its sequence.
C7_Step ==
    (NotifyStep /\ evt'.ok) =>
        LET key == <<evt'.prefix, evt'.type>>
        IN  /\ Suppressed(out') <=> StoredBefore = evt'.seq
            /\ Accepted(out') <=> StoredBefore # evt'.seq
            /\ StoredBefore = evt'.seq => last_seq' = last_seq
            /\ StoredBefore # evt'.seq =>
                 /\ DOMAIN last_seq' = DOMAIN last_seq \cup {key}
                 /\ last_seq'[key] = evt'.seq
                 /\ \A k \in DOMAIN last_seq \ {key} : last_seq'[k] = last_seq[k]

\* C7, the consequence: after any decoded event its sequence is the stored
\* one, so the same triple fed again is suppressed.
C7_Stored ==
    (lastAct = "Notify" /\ evt.ok) =>
        LastSeqGet(last_seq, <<evt.prefix, evt.type>>) = evt.seq

\* C7: already_handled returns True iff the stored sequence of (prefix, type)
\* equals the incoming one, and otherwise stores it and returns False.
C7_Dedup == []C7_Stored /\ [][C7_Step]_vars

\* 0008 81 twice, then 0008 82: accepted, suppressed, accepted again.
C7_Witness ==
    /\ nrx = 3
    /\ ndup = 1
    /\ rx = <<0, 8, 130>>
    /\ Accepted(out)
    /\ DOMAIN last_seq = {<<"0008", "press">>}

\* C8, one redelivery: a suppressed notification issues no key call and no
\* put and changes neither the registry nor the queue; an accepted 0001 81
\* issues exactly one tap of "7", 0001 01 issues no key call; an accepted
\* press (release) of the Hold button Right Steer issues exactly one keyDown
\* (keyUp) when it is not (is) held.
C8_Step ==
    (NotifyStep /\ evt'.ok) =>
        /\ StoredBefore = evt'.seq =>
             /\ KeyEvs(out') = <<>>
             /\ PutEvs(out') = <<>>
             /\ UNCHANGED <<HELD_BY_BUTTON, pressed, bal, msgq, ntap>>
        /\ (rx' = <<0, 1, 129>> /\ StoredBefore # evt'.seq) =>
             KeyEvs(out') = <<Ev("press", "7", "Right Up")>>
        /\ rx' = <<0, 1, 1>> => KeyEvs(out') = <<>>
        /\ (rx' = <<0, 8, 129>> /\ StoredBefore # evt'.seq
              /\ ~HeldHas(HELD_BY_BUTTON, "Right Steer")) =>
             KeyEvs(out') = <<Ev("keyDown", "right", "Right Steer")>>
        /\ (rx' = <<0, 8, 1>> /\ StoredBefore # evt'.seq
              /\ HeldHas(HELD_BY_BUTTON, "Right Steer")) =>
             KeyEvs(out') = <<Ev("keyUp", "right", "Right Steer")>>

\* The run delivered exactly 0001 81, 0001 81, 0001 01.
C8_StreamDelivered ==
    /\ nrx = 3
    /\ ndup = 1
    /\ rx = <<0, 1, 1>>
    /\ Accepted(out)
    /\ DOMAIN last_seq = {<<"0001", "press">>, <<"0001", "release">>}

\* C8, the stream: after 0001 81, 0001 81, 0001 01 exactly one tap was made.
C8_Stream == C8_StreamDelivered => (ntap = 1 /\ pressed = {})

\* C8: a redelivered frame adds no key call and no log to those of its first
\* delivery.
C8_Redelivery == []C8_Stream /\ [][C8_Step]_vars

C8_Witness == C8_StreamDelivered /\ ntap = 1

\* C9, the effects: a payload that is not a short frame of a known button
\* changes neither _last_seq nor the registry and issues no key call; a
\* suppressed event changes no registry entry and issues no key call.
C9_Step ==
    NotifyStep =>
        /\ NotShort(rx') =>
             /\ UNCHANGED <<last_seq, HELD_BY_BUTTON, pressed, bal, ntap>>
             /\ \A i \in 1..Len(out') :
                  /\ ~IsKeyEv(out'[i])
                  /\ ~IsRegistryCall(out'[i])
                  /\ ~(out'[i].t = "call" /\ out'[i].a = "already_handled")
        /\ Suppressed(out') =>
             /\ UNCHANGED <<HELD_BY_BUTTON, pressed, bal, ntap>>
             /\ \A i \in 1..Len(out') :
                  ~IsKeyEv(out'[i]) /\ ~IsRegistryCall(out'[i])

\* C9, the order: the handler calls parse_short_frame first, already_handled
\* only on a decoded event, and touches keys or registry only after
\* already_handled returned False.
C9_Order ==
    lastAct = "Notify" =>
        /\ Len(out) >= 2
        /\ out[2].t = "call" /\ out[2].a = "parse_short_frame"
        /\ \A i \in OutIdx :
             (out[i].t = "call" /\ out[i].a = "already_handled")
                => (i = 3 /\ out[2].b # "None")
        /\ \A i \in OutIdx :
             (IsKeyEv(out[i]) \/ IsRegistryCall(out[i]))
                => (i > 3 /\ out[3] = Ev("call", "already_handled", "False"))

\* C9: Decoder, then Dedup only if decoded, then Dispatcher only if accepted.
C9_Pipeline == []C9_Order /\ [][C9_Step]_vars

\* A 4-byte payload with the prefix of a known button arrived while a key
\* was held.
C9_Witness ==
    /\ lastAct = "Notify"
    /\ Len(rx) = 4
    /\ HELD_BY_BUTTON # <<>>
    /\ out[2] = Ev("call", "parse_short_frame", "None")

\* C10: on 3 bytes [P, Q, R] the result is NotShortFrame unless (P, Q) is the
\* prefix of a button; then the name is that button's, the prefix is its
\* 4-digit hex code, the type is press iff R >= 128, the sequence is R
\* without bit 7 and lies in 0..127.
C10_Decode ==
    Len(rx) = 3 =>
        LET P == rx[1]
            Q == rx[2]
            R == rx[3]
        IN  /\ <<P, Q>> \notin DOMAIN PrefixBytes => evt = NotShortFrame
            /\ <<P, Q>> \in DOMAIN PrefixBytes =>
                 /\ evt.ok
                 /\ evt.name = PrefixBytes[<<P, Q>>]
                 /\ evt.prefix \in DOMAIN PREFIX_TO_BUTTON
                 /\ PREFIX_TO_BUTTON[evt.prefix] = evt.name
                 /\ evt.type = (IF R >= 128 THEN "press" ELSE "release")
                 /\ evt.seq = (IF R >= 128 THEN R - 128 ELSE R)
                 /\ evt.seq \in 0..127
            /\ rx = <<0, 1, 129>> =>
                 /\ evt.prefix = "0001" /\ evt.name = "Right Up"
                 /\ evt.type = "press" /\ evt.seq = 1
            /\ rx = <<0, 1, 1>> =>
                 /\ evt.prefix = "0001" /\ evt.name = "Right Up"
                 /\ evt.type = "release" /\ evt.seq = 1

\* 8000 FF decoded: Right Down, press, sequence 127.
C10_Witness ==
    /\ rx = <<128, 0, 255>>
    /\ evt.ok
    /\ evt.name = "Right Down"
    /\ evt.type = "press"
    /\ evt.seq = 127

\* C11: a payload whose length is not 3 decodes to NotShortFrame, whatever
\* its bytes.
C11_WrongLength == Len(rx) # 3 => evt = NotShortFrame

\* 0001 81 00: 4 bytes that start with the prefix of Right Up.
C11_Witness ==
    /\ rx = <<0, 1, 129, 0>>
    /\ <<rx[1], rx[2]>> \in DOMAIN PrefixBytes
    /\ evt = NotShortFrame

\* The key and the behavior the tables give the button of the event just
\* dispatched.
KeyOfEvt == IF evt'.name \in DOMAIN BUTTON_TO_KEY
            THEN BUTTON_TO_KEY[evt'.name] ELSE ""
BehaviorOfEvt == IF evt'.name \in DOMAIN BUTTON_BEHAVIOR
                 THEN BUTTON_BEHAVIOR[evt'.name] ELSE "tap"

\* C12, one dispatch: no key configured: no key call and no registry change;
\* Tap: a press issues exactly one tap of the button's key and a release
\* nothing, the registry untouched; Hold: a press calls hold_if_needed and a
\* release calls release_if_held, for that button.
C12_Step ==
    lastAct' = "Dispatch" =>
        /\ KeyOfEvt = "" =>
             /\ KeyEvs(out') = <<>>
             /\ UNCHANGED <<HELD_BY_BUTTON, pressed, bal>>
        /\ (KeyOfEvt # "" /\ BehaviorOfEvt = "tap" /\ evt'.type = "press") =>
             /\ out' = <<Ev("press", to_pydi_key(KeyOfEvt), evt'.name)>>
             /\ UNCHANGED HELD_BY_BUTTON
        /\ (BehaviorOfEvt = "tap" /\ evt'.type = "release") =>
             /\ out' = <<>>
             /\ UNCHANGED HELD_BY_BUTTON
        /\ (KeyOfEvt # "" /\ BehaviorOfEvt = "hold" /\ evt'.type = "press") =>
             /\ out' # <<>>
             /\ out'[1] = Ev("call", "hold_if_needed", evt'.name)
             /\ \A i \in 1..Len(out') : out'[i].t # "press"
        /\ (BehaviorOfEvt = "hold" /\ evt'.type = "release") =>
             /\ out' # <<>>
             /\ out'[1] = Ev("call", "release_if_held", evt'.name)
             /\ \A i \in 1..Len(out') : out'[i].t # "press"

\* C12: the dispatch of an accepted event follows the tables.
C12_DispatchFollowsTable == [][C12_Step]_vars

\* A press of Left Steer, a Hold button without a key, was dispatched after
\* a Tap button had been tapped: nothing was issued.
C12_Witness ==
    /\ lastAct = "Dispatch"
    /\ evt.name = "Left Steer"
    /\ evt.type = "press"
    /\ "Left Steer" \notin DOMAIN BUTTON_TO_KEY
    /\ out = <<>>
    /\ HELD_BY_BUTTON # <<>>

\* The transport operations that open something: scan, connect, subscribe.
IsOpeningCall(e) ==
    e.t = "call" /\ e.a \in {"discover", "connect", "start_notify"}
Teardown == {"stop_notify", "disconnect"}
HasEv(o, e) == \E i \in 1..Len(o) : o[i] = e

\* C13 (as claimed): when client.connect() ends without a connection, by an
\* unconnected handle or by an exception, and stop is not requested, the
\* machine is in Reconnecting afterwards, never in Failed.
C13_Step ==
    (pc = "connect" /\ ~stop_event /\ pc' \notin {"connect", "subscribe"})
        => ConnState' = "Reconnecting"
C13_ConnectFailureReconnects == [][C13_Step]_vars

\* C14 (as claimed): when start_notify raises after a successful connect and
\* stop is not requested, the connection is torn down and the machine is in
\* Reconnecting afterwards, never in Failed.
C14_Step ==
    /\ (pc = "subscribe" /\ ~stop_event /\ ~disconnected_event
           /\ pc' \notin {"subscribe", "listen"})
          => (pc' \in Teardown \/ ConnState' = "Reconnecting")
    /\ (pc \in Teardown /\ exit = "raise" /\ ~stop_event
           /\ pc' \notin Teardown)
          => ConnState' = "Reconnecting"
C14_SubscribeFailureReconnects == [][C14_Step]_vars

\* C15 (as claimed): in a reconnect attempt, i.e. a connect started from the
\* loop top on the device of the session that was listening before, a
\* failure with stop not requested leads to another attempt: the worker
\* does not end.
C15_Step ==
    (pc = "connect" /\ lastAct = "LoopTop" /\ ~stop_event /\ pc' # pc)
        => (pc' # "done" /\ ConnState' \in {"Connecting", "Reconnecting"})
C15_ReconnectsIndefinitely == [][C15_Step]_vars

\* C16 (as claimed): when the stop signal is set during the backoff delay,
\* the loop test that follows starts no scan and no connect, the worker ends
\* in Stopped, and the Disconnected status and the enabling of the Connect
\* control are put on the queue.
C16_Step ==
    (pc = "top" /\ dev # "" /\ stop_event /\ pc' # pc)
        => /\ pc' = "done"
           /\ ConnState' = "Stopped"
           /\ \A i \in 1..Len(out') : ~IsOpeningCall(out'[i])
           /\ HasEv(out', DisconnectedEv)
           /\ HasEv(out', EnableConnect[1])
C16_StopDuringBackoff == [][C16_Step]_vars

\* C17 (as claimed): once stop is set, no step of the worker starts a scan,
\* a connect or a subscribe.
C17_Step ==
    (stop_event /\ pc' # pc)
        => \A i \in 1..Len(out') : ~IsOpeningCall(out'[i])
C17_NoNewOperationAfterStop == [][C17_Step]_vars

\* C20 (as claimed): when client.connect() ends without a connection while
\* stop is requested, no backoff and no further attempt follow, and the
\* worker ends in Stopped, reported as such (Disconnected, not Error).
C20_Step ==
    (pc = "connect" /\ stop_event /\ pc' \notin {"connect", "subscribe"})
        => /\ pc' = "done"
           /\ ConnState' = "Stopped"
           /\ HasEv(out', DisconnectedEv)
           /\ ~HasEv(out', StatusEv("Error", "red"))
C20_ConnectFailureWhileStopping == [][C20_Step]_vars

\* The worker has returned and the terminal state is Stopped.
WorkerStopped == pc = "done" /\ ConnState = "Stopped"

\* C18 (as claimed): once the stop signal is set, the worker eventually
\* terminates in Stopped.
C18_StopDrainsToStopped == stop_event ~> WorkerStopped

\* C18 (amended): once the stop signal is set it stays set while the worker
\* runs, neither backoff delay is entered, the loop test starts no new
\* attempt, and the worker eventually terminates.
C18_Step ==
    /\ (stop_event /\ Alive) => stop_event'
    /\ (stop_event /\ pc' # pc) => pc' \notin {"backoff", "sleep419"}
    /\ (stop_event /\ pc = "top" /\ pc' # pc) => pc' = "done"
C18_StopTerminates == [][C18_Step]_vars /\ (stop_event ~> (pc = "done"))

\* The stop signal was set during the scan, the scan found nothing: the
\* worker has terminated, in Failed.
C18_Witness ==
    /\ stop_event
    /\ pc = "done"
    /\ ending = "not_found"
    /\ lastAct = "ScanDone"

\* C19, the steps: with stop set, the listen loop exits into stop_notify;
\* disconnect follows while the link is up; when the teardown is over the
\* keys are released, Disconnected and the enabling of Connect are put last,
\* in this order, the worker is done in Stopped; a terminated worker moves
\* again only by on_connect_clicked.
C19_Step ==
    /\ (pc = "listen" /\ stop_event /\ pc' # pc)
          => /\ pc' = "stop_notify"
             /\ exit' = "normal"
             /\ out' = Call("stop_notify", "")
    /\ (pc = "stop_notify" /\ exit = "normal" /\ stop_event /\ linkUp
           /\ pc' # pc)
          => /\ pc' = "disconnect"
             /\ HasEv(out', Ev("call", "disconnect", ""))
    /\ (pc \in Teardown /\ exit = "normal" /\ stop_event /\ pc' \notin Teardown)
          => /\ pc' = "done"
             /\ ending' = "stopped"
             /\ td'[1] = "stop_notify"
             /\ td'[Len(td')] = "release_all_held_keys"
             /\ Len(out') >= 2
             /\ out'[Len(out') - 1] = DisconnectedEv
             /\ out'[Len(out')] = EnableConnect[1]
             /\ ~HasEv(out', ReconnectingEv)
             /\ \A i \in 1..Len(out') : ~IsOpeningCall(out'[i])
    /\ (pc = "done" /\ pc' # pc) => lastAct' = "on_connect_clicked"

\* C19: a stop request while listening leads through Disconnecting to
\* Stopped.
C19_StopWhileListening ==
    /\ [][C19_Step]_vars
    /\ (pc = "listen" /\ stop_event) ~> (pc = "done" /\ ending = "stopped")

\* Stopped after a user stop in Listening with the link up: stop_notify,
\* disconnect and release_all_held_keys were called, in this order.
C19_Witness ==
    /\ pc = "done"
    /\ ending = "stopped"
    /\ stop_event
    /\ td = <<"stop_notify", "disconnect", "release_all_held_keys">>
    /\ HasEv(out, DisconnectedEv)

\* C21, the steps: with the disconnect callback delivered and stop not set,
\* the listen loop exits into the teardown; when the teardown is over the
\* Reconnecting status is put, the device is kept and the worker sleeps; the
\* sleep is followed by the loop test; the loop test with stop not set
\* connects to the kept device without a scan, or scans when none is kept.
C21_Step ==
    /\ (pc = "listen" /\ disconnected_event /\ ~stop_event /\ pc' # pc)
          => (pc' = "stop_notify" /\ exit' = "normal")
    /\ (pc \in Teardown /\ exit = "normal" /\ ~stop_event /\ pc' \notin Teardown)
          => /\ pc' = "backoff"
             /\ ConnState' = "Reconnecting"
             /\ HasEv(out', ReconnectingEv)
             /\ dev' = dev
             /\ dev' # ""
    /\ (pc = "backoff" /\ pc' # pc) => (pc' = "top" /\ dev' = dev)
    /\ (pc = "top" /\ ~stop_event /\ pc' # pc)
          => IF dev # ""
             THEN /\ pc' = "connect"
                  /\ dev' = dev
                  /\ HasEv(out', Ev("call", "connect", ""))
                  /\ ~HasEv(out', Ev("call", "discover", ""))
             ELSE /\ pc' = "scan"
                  /\ HasEv(out', Ev("call", "discover", ""))

\* A connect on the kept device, started from the loop top.
Reconnecting2Connecting == pc = "connect" /\ lastAct = "LoopTop"

\* C21: the disconnect callback in Listening with stop not requested leads
\* to Reconnecting and from there to a connect on the kept device.
C21_DisconnectLeadsToReconnect ==
    /\ [][C21_Step]_vars
    /\ (pc = "listen" /\ disconnected_event /\ ~stop_event)
          ~> (Reconnecting2Connecting \/ stop_event)

C21_Witness == Reconnecting2Connecting /\ ~stop_event /\ dev # ""

\* C22, the steps: a scan ends in a connect attempt or ends the worker; when
\* it found nothing the step puts the log line, the Not found status and the
\* enabling of Connect, starts nothing, and the worker is done in Failed; a
\* terminated worker moves again only by on_connect_clicked.
C22_Step ==
    /\ (pc = "scan" /\ pc' # pc) => pc' \in {"connect", "done"}
    /\ (pc' # pc /\ HasEv(out', Ev("put", "log", <<"[BLE] Device not found.">>)))
          => /\ pc = "scan"
             /\ pc' = "done"
             /\ ConnState' = "Failed"
             /\ out' = Log("[BLE] Device not found.")
                        \o Status("Not found", "red") \o EnableConnect
    /\ (pc = "scan" /\ pc' = "done")
          => /\ ConnState' = "Failed"
             /\ \E i \in 1..Len(out') :
                  out'[i].t = "put" /\ out'[i].a = "status"
                  /\ out'[i].b[2] = "red"
             /\ \A i \in 1..Len(out') : ~IsOpeningCall(out'[i])
    /\ (pc = "done" /\ pc' # pc) => lastAct' = "on_connect_clicked"

\* C22: a scan that finds no device ends the worker in Failed.
C22_NotFoundIsFailed == [][C22_Step]_vars

\* The scan found nothing while stop was not requested.
C22_Witness ==
    /\ pc = "done"
    /\ ending = "not_found"
    /\ ~stop_event
    /\ HasEv(out, StatusEv("Not found", "red"))

\* The positions of the status messages in the queue.
StatusIdx == { i \in 1..Len(msgq) : msgq[i].kind = "status" }

\* C23, one step: a put adds its message at the tail, behind everything
\* pending, and touches nothing the host displays; a poll leaves the queue
\* empty, the status displayed afterwards is the one of the last status
\* message that was pending (the one before the poll if there was none),
\* and the buttons are enabled iff an enable_connect message was pending.
C23_Step ==
    /\ Len(msgq') > Len(msgq)
          => /\ Len(msgq') = Len(msgq) + 1
             /\ SubSeq(msgq', 1, Len(msgq)) = msgq
             /\ UNCHANGED <<uiStatus, btn_connect, btn_disconnect>>
    /\ Len(msgq') < Len(msgq)
          => /\ msgq' = <<>>
             /\ uiStatus' =
                  IF StatusIdx = {} THEN uiStatus
                  ELSE msgq[CHOOSE i \in StatusIdx :
                                \A j \in StatusIdx : j <= i].payload
             /\ IF \E i \in 1..Len(msgq) : msgq[i].kind = "enable_connect"
                THEN btn_connect' /\ btn_disconnect'
                ELSE UNCHANGED <<btn_connect, btn_disconnect>>

\* C23: the queue is first-in first-out and a poll drains all of it.
C23_OrderedQueue == [][C23_Step]_vars

\* Polls have handled a Disconnected status and an enable_connect message.
C23_Witness ==
    /\ msgq = <<>>
    /\ lastAct = "msgq_put"
    /\ uiStatus = <<"Disconnected", "gray">>
    /\ btn_disconnect

\* C24, one step: a step of the running worker leaves the status the host
\* displays as it is (it reaches the display through the queue only).
C24_Step == (Alive /\ pc' # pc) => uiStatus' = uiStatus

\* C24 (as claimed): the worker never changes the displayed status itself.
C24_StatusOnlyThroughQueue == [][C24_Step]_vars

\* C25 (as claimed), one step: a payload of the wrong length or with an
\* unknown prefix puts a log message on the queue.
C25_StepLogged == (NotifyStep /\ NotShort(rx')) => PutEvs(out') # <<>>

C25_Step ==
    (NotifyStep /\ NotShort(rx')) =>
        /\ PutEvs(out') = IF debug_var
                           THEN Log("[BLE] Other frame: " \o HexOf(rx'))
                           ELSE <<>>
        /\ KeyEvs(out') = <<>>
        /\ UNCHANGED dictVars

C26_NoKeyDownAfterShutdown == hostPc = "exited" => pressed = {}

\* The events of o that are failed key calls.
RaiseIdx(o) == { i \in 1..Len(o) : o[i].t = "raise" }

\* C27, one call: whatever key-ups fail, release_all_held_keys is not left by
\* an exception, the registry is empty afterwards, and the key of every entry
\* was tried exactly once, in order: either its keyUp was issued or its
\* failure was swallowed; the keys whose keyUp was issued are up.
C27_Step ==
    (lastAct' = "ReleaseAll_exc" /\ UNCHANGED hostVars) =>
        /\ HELD_BY_BUTTON' = <<>>
        /\ ~HasEv(out', Except("release_all_held_keys"))
        /\ Len(out') = Len(HELD_BY_BUTTON) + 1
        /\ \A i \in 1..Len(HELD_BY_BUTTON) :
             LET k == to_pydi_key(HELD_BY_BUTTON[i].key)
                 b == HELD_BY_BUTTON[i].btn
             IN  /\ out'[i + 1] \in {Ev("keyUp", k, b), Ev("raise", k, b)}
                 /\ out'[i + 1].t = "keyUp" => k \notin pressed'

\* C27: release_all_held_keys never raises and always empties the registry.
C27_ReleaseAllNeverRaises == [][C27_Step]_vars

\* The keyUp of one entry failed and the keyUp of a later entry was issued.
C27_Witness ==
    /\ lastAct = "ReleaseAll_exc"
    /\ HELD_BY_BUTTON = <<>>
    /\ \E i, j \in OutIdx : i < j /\ out[i].t = "raise" /\ out[j].t = "keyUp"

\* C28 (as claimed), one frame: when a key call of the dispatch fails, the
\* handler is not left by the exception and a log message follows the
\* failure.
C28_Step ==
    \A i \in RaiseIdx(out') :
        lastAct' = "Notify_exc" =>
            /\ ~HasEv(out', Except("notification_handler"))
            /\ \E j \in (i + 1)..Len(out') :
                 IsPut(out'[j]) /\ out'[j].a = "log"

\* C28 (as claimed): a key-injection failure is swallowed and logged.
C28_FailureSwallowed == [][C28_Step]_vars

\* C29 (as claimed), one step: a step of the GUI thread's shutdown sequence
\* leaves _HELD_BY_BUTTON and _last_seq alone, and what the handler does with
\* a payload does not depend on the Debug checkbox of the GUI.
C29_Step ==
    /\ hostPc' # hostPc => UNCHANGED <<HELD_BY_BUTTON, last_seq>>
    /\ NotifyStep =>
          \A d \in BOOLEAN :
              notification_handler(last_seq, HELD_BY_BUTTON, d, rx')
                = notification_handler(last_seq, HELD_BY_BUTTON, debug_var, rx')

\* C29 (as claimed): the two threads share nothing but the queue and the
\* stop event.
C29_NoSharedState == [][C29_Step]_vars

\* C30, one step: a notification step is the whole handler on the payload
\* (decode, dedup, log and dispatch), whether or not stop is requested, and
\* it moves neither the worker nor the link nor the teardown; the link-drop
\* event is set only by the scheduled callback, in a step of its own that
\* does not move the worker and makes no key call.
C30_Step ==
    /\ NotifyStep =>
          LET r == notification_handler(last_seq, HELD_BY_BUTTON, debug_var, rx')
          IN  /\ last_seq' = r.ls
              /\ HELD_BY_BUTTON' = r.held
              /\ out' = Call("notification_handler", HexOf(rx')) \o r.ev
              /\ pressed' = PressedAfter(pressed, r.ev)
              /\ UNCHANGED <<workerVars, linkVars, td, stop_event>>
    /\ (~disconnected_event /\ disconnected_event') =>
          /\ cbPending /\ ~cbPending'
          /\ out' = <<>>
          /\ UNCHANGED <<pc, dev, client, notify_on, exit, ending, td>>
          /\ UNCHANGED <<dictVars, pressed, stop_event>>

C31_Step ==
    LET b == evt'.name
    IN  /\ (lastAct' = "Dispatch" /\ HasEv(out', Ev("call", "hold_if_needed", b))) =>
              IF HeldHas(HELD_BY_BUTTON, b)
              THEN /\ KeyEvs(out') = <<>>
                   /\ UNCHANGED <<HELD_BY_BUTTON, pressed>>
              ELSE /\ KeyEvs(out') = <<Ev("keyDown", to_pydi_key(KeyOfEvt), b)>>
                   /\ HELD_BY_BUTTON' =
                        HELD_BY_BUTTON \o <<[btn |-> b, key |-> KeyOfEvt]>>
        /\ (lastAct' = "Dispatch" /\ HasEv(out', Ev("call", "release_if_held", b))) =>
              IF ~HeldHas(HELD_BY_BUTTON, b)
              THEN /\ KeyEvs(out') = <<>>
                   /\ UNCHANGED <<HELD_BY_BUTTON, pressed>>
              ELSE /\ KeyEvs(out') =
                        <<Ev("keyUp", to_pydi_key(HeldKey(HELD_BY_BUTTON, b)), b)>>
                   /\ HELD_BY_BUTTON' =
                        SelectSeq(HELD_BY_BUTTON, LAMBDA e : e.btn # b)

\* C31: hold_if_needed and release_if_held are idempotent.
C31_Idempotent == [][C31_Step]_vars

\* hold_if_needed was called for a button that had an entry, next to the
\* entry of another button: nothing was issued.
C31_Witness ==
    /\ lastAct = "Dispatch"
    /\ evt.type = "press"
    /\ out = <<Ev("call", "hold_if_needed", evt.name)>>
    /\ Len(HELD_BY_BUTTON) >= 2

\* C32, one step: the frame of a press or a release of the peripheral is
\* accepted by already_handled when it is delivered, and a frame delivered
\* once more is suppressed and changes nothing.
C32_Step ==
    /\ btn_down' # btn_down => Accepted(out') /\ ~Suppressed(out')
    /\ (lastAct' = "SimRedeliver" /\ Len(msgq') >= Len(msgq)) =>
          /\ Suppressed(out') /\ ~Accepted(out')
          /\ UNCHANGED <<last_seq, HELD_BY_BUTTON, pressed>>

\* C32: every press and every release is accepted exactly once.
C32_ExactlyOnce == [][C32_Step]_vars

\* The press that wraps the sequence from 127 to 0 has been accepted.
C32_Witness ==
    /\ lastAct = "SimPress"
    /\ evt.ok /\ evt.type = "press" /\ evt.seq = 0
    /\ Accepted(out)

\* The keys _last_seq may have: a prefix of the table and a kind.
DedupKeys == (DOMAIN PREFIX_TO_BUTTON) \X {"press", "release"}

\* C33, one step of any kind (worker, transport, host, start and stop): no
\* key of _last_seq goes away and every key is a (prefix, kind) of the
\* table; an entry is created or changed only by a notification that
\* decodes to its (prefix, kind) and is accepted, and it then holds the
\* sequence of that frame; a frame whose sequence equals the stored one is
\* suppressed and leaves _last_seq as it is, wherever the worker is.
C33_Step ==
    /\ DOMAIN last_seq \subseteq DOMAIN last_seq'
    /\ DOMAIN last_seq' \subseteq DedupKeys
    /\ \A k \in DOMAIN last_seq' :
         LastSeqGet(last_seq, k) # last_seq'[k] =>
             /\ NotifyStep
             /\ evt'.ok
             /\ k = <<evt'.prefix, evt'.type>>
             /\ last_seq'[k] = evt'.seq
             /\ Accepted(out')
    /\ (NotifyStep /\ evt'.ok /\ StoredBefore = evt'.seq) =>
          /\ Suppressed(out')
          /\ UNCHANGED last_seq

\* C33: entries of the dedup mapping are never deleted.
C33_DedupPersists == [][C33_Step]_vars

\* After a reconnect (the Reconnecting status is on display, the Connected
\* status of the new connection is still in the queue, so no frame has been
\* accepted on it) a frame was suppressed by the sequence stored before.
C33_Witness ==
    /\ pc = "listen"
    /\ lastAct = "Notify"
    /\ Suppressed(out)
    /\ uiStatus = <<"Reconnecting...", "orange">>
    /\ Len(msgq) = 2
    /\ msgq[1] = [kind |-> "status", payload |-> <<"Connected", "green">>]

\* The press delivered in this step and whether a press of its prefix is
\* stored.
PressDelivered == btn_down' # btn_down /\ evt'.ok /\ evt'.type = "press"
PressStored == <<evt'.prefix, "press">> \in DOMAIN last_seq

\* C34 (as claimed), one step: a press delivered after exactly 128 presses
\* that the bridge did not receive is suppressed.
C34_StepClaimed ==
    (PressDelivered /\ PressStored /\ nlost = 128) => Suppressed(out')

\* C34 (as claimed): 128 intervening presses alias.
C34_AliasAt128Between == [][C34_StepClaimed]_vars

\* C34 (amended), one step: a press delivered after nlost presses that the
\* bridge did not receive is suppressed iff a press of the prefix is stored
\* and nlost + 1 is a multiple of 128, that is, with 127 presses in between.
C34_Step ==
    PressDelivered =>
        (Suppressed(out') <=> (PressStored /\ (nlost + 1) % 128 = 0))

\* C34 (amended): the 128th press after the stored one aliases.
C34_AliasAt128th == [][C34_Step]_vars

\* A press was suppressed: it came 128 presses after the one stored.
C34_Witness ==
    /\ lastAct = "SimPress"
    /\ btn_down # {}
    /\ evt.type = "press"
    /\ Suppressed(out)

\* C35 (as claimed), one step: a frame processed by the other object leaves
\* what the handler of the first object does with any payload (accept or
\* suppress, key calls, registry) as it was.
C35_Step ==
    (lastAct' = "Bridge_other" /\ UNCHANGED msgq) =>
        \A payload \in Payloads :
            LET before == notification_handler(last_seq, HELD_BY_BUTTON,
                                               debug_var, payload)
                after == notification_handler(last_seq', HELD_BY_BUTTON',
                                              debug_var, payload)
            IN  after.ev = before.ev

\* C35 (as claimed): two bridge objects do not interfere.
C35_NoInterference == [][C35_Step]_vars

\* C36, one call of send_press or send_release for a button: the payload
\* has 3 bytes and decodes to the button's name; for send_press the kind is
\* press, the sequence is the counter of the prefix plus one modulo 128 and
\* the counter takes that value; for send_release the kind is release, the
\* sequence is the counter of the prefix and the counter stays; the counters
\* of the other prefixes stay.
C36_Step ==
    nrx' = nrx + 1 =>
        LET fn == out'[1].a
            b == out'[1].b
            p == evt'.prefix
        IN  /\ Len(rx') = 3
            /\ evt'.ok
            /\ evt'.name = b
            /\ PREFIX_TO_BUTTON[p] = b
            /\ evt'.seq \in 0..127
            /\ fn = "send_press" =>
                  /\ evt'.type = "press"
                  /\ evt'.seq = (seq_by_prefix[p] + 1) % 128
                  /\ seq_by_prefix'[p] = evt'.seq
            /\ fn = "send_release" =>
                  /\ evt'.type = "release"
                  /\ evt'.seq = seq_by_prefix[p]
                  /\ seq_by_prefix'[p] = seq_by_prefix[p]
            /\ \A q \in DOMAIN PREFIX_TO_BUTTON \ {p} :
                  seq_by_prefix'[q] = seq_by_prefix[q]

\* C36: the peripheral's frames round-trip through the decoder.
C36_RoundTrip == [][C36_Step]_vars

\* A press wrapped the counter of its prefix from 127 to 0 and the release
\* sent after it carries 0; the other counters are still 127.
C36_Witness ==
    /\ lastAct = "send_release"
    /\ nrx = 2
    /\ evt.ok /\ evt.type = "release" /\ evt.seq = 0
    /\ seq_by_prefix[evt.prefix] = 0
    /\ \A q \in DOMAIN PREFIX_TO_BUTTON \ {evt.prefix} : seq_by_prefix[q] = 127

\* C37 (as claimed), one step: the step in which the worker ends puts an
\* enable_connect message.
C37_Step == (Alive /\ pc' = "done") => HasEv(out', EnableConnect[1])

\* C37 (as claimed): the worker never ends without enabling Connect.
C37_EndEnablesConnect == [][C37_Step]_vars

\* C38, one step: the worker leaves the listen loop only when stop is
\* requested or the link of the connection it listens on is down.
C38_Step == (pc = "listen" /\ pc' # "listen") => (stop_event \/ ~linkUp)

\* C38 (as claimed): a disconnected callback that belongs to an earlier
\* attempt and runs after a new attempt has begun does not end the listen
\* loop of the new attempt.
C38_StaleCallbackIgnored == [][C38_Step]_vars

\* C39, one step: the stop signal is cleared, and the Connect button is
\* consumed by a start, only when no worker is alive, and the step starts a
\* worker; a step of the host never moves a worker that is alive.
C39_Step ==
    /\ (stop_event /\ ~stop_event') => (~Alive /\ pc' = "top")
    /\ (btn_connect /\ ~btn_connect') => (~Alive /\ pc' = "top")
    /\ (Alive /\ btn_connect /\ lastAct' = lastAct) => UNCHANGED workerVars

\* C39: at most one worker is active: a start request made while a worker is
\* alive starts nothing and leaves the stop signal as it is, and the stop
\* signal is cleared only by the step that starts a new worker.
C39_SingleWorker == [][C39_Step]_vars

\* C39 witness: the worker is still alive with a stop request pending, and
\* the Connect button is enabled, so that a start request can be made.
C39_Witness == Alive /\ btn_connect /\ stop_event

\* C40 (as claimed), one frame: when a key call of the dispatch fails, the
\* registry of held keys is after the frame what it was before it.
C40_Step ==
    (lastAct' = "Notify_exc" /\ nrx' = nrx + 1 /\ RaiseIdx(out') # {})
        => HELD_BY_BUTTON' = HELD_BY_BUTTON

\* C40 (as claimed): a key-injection failure leaves the registry unchanged:
\* no entry after a failed key-down, the entry still present after a failed
\* key-up.
C40_FailureKeepsRegistry == [][C40_Step]_vars

====
